---- MODULE Spec2Model ----
(***************************************************************************)
(* Source-agnostic ingestion of financial-statement records:               *)
(*   DataSourceManager  -> KafkaDataSource      -> FinancialStatementConsumer *)
(*                      -> FileWatcherDataSource -> FinancialStatementFileWatcher *)
(* One caller thread drives the manager and its adapter; the watchdog      *)
(* observer thread runs FinancialStatementFileHandler; the environment     *)
(* drops, re-delivers and removes files and produces broker messages.      *)
(* Time is counted in units of 2.5 s: the default polling_interval (5 s)   *)
(* and the default timeout_ms (5000) are both 2 units. The clock is read   *)
(* only by the while test of the file watcher's consume_batch, which takes *)
(* any reading not earlier than the last one.                              *)
(* Spec is the whole system. SpecAdapter (one adapter of either kind),     *)
(* SpecRedelivery (one file watcher whose observer repeats events),        *)
(* SpecManager (the manager over several adapters, empty directory),       *)
(* SpecWait (one file watcher, long timeouts), SpecRestart (one file       *)
(* watcher whose process crashes and restarts) and SpecBroker (one broker  *)
(* adapter on a topic that never runs dry, the caller's thread running     *)
(* fairly), SpecScan (one file watcher connected again and again while     *)
(* files are being written), SpecFactory (the manager and calls of         *)
(* create_data_source), SpecDag (the DAG's consume task run after run,     *)
(* its thread running fairly) and SpecArchive (one file watcher, reused    *)
(* file names and the clock of the archive's timestamps) take their steps  *)
(* from the same actions.                                                  *)
(***************************************************************************)
EXTENDS Integers, Sequences, FiniteSets, TLC

\* ------------------------------------------------------------- bounds
NumFiles    == 2   \* distinct file names the producer may drop
ListLen     == 2   \* records in a list-valued file
MaxBatch    == 2   \* largest batch_size a caller passes
MaxTimeout  == 1   \* largest timeout (time units) a caller passes
MaxAdapters == 2   \* adapters one manager constructs
MaxEvents   == 1   \* events the observer reports for a path it reported before
MaxTopic    == 2   \* messages produced to the broker topic
MaxBrokerTimeout == 5  \* largest timeout (time units) passed to a broker adapter
MaxArchived == 2   \* a name is reused while fewer files than this are archived
MaxSecond   == 1   \* seconds the clock goes on for

\* polling_interval of FileWatcherConfig, in time units (default 5 s)
PollingInterval == 2
\* consumer_timeout_ms of KAFKA_CONFIG, in time units (10000 ms)
ConsumerTimeout == 4

Files      == 1..NumFiles
FileKinds  == {"obj", "list", "bad"}     \* single object, list, unparsable
DropKinds  == FileKinds \cup {"empty"}   \* ... or a file of 0 bytes
SlowKinds  == DropKinds \cup {"writing"} \* ... or one whose writer is still at it
MsgKinds   == {"valid", "invalid", "corrupt"}
TimeCap    == MaxTimeout + PollingInterval
SourceArgs == {"kafka", "file_watcher", "FILE_WATCHER", "bogus"}

VARIABLES
    \* --- filesystem
    inputDir,       \* files in input_dir, in modification-time order
    archiveDir,     \* files in archive_dir, by the name they had in input_dir
    archiveNames,   \* the names of the files in archive_dir
    nArchived,      \* files moved to archive_dir so far
    second,         \* the clock, in whole seconds
    errorDir,       \* files in error_dir
    reportDir,      \* .error.txt reports in error_dir
    kind,           \* content of each file name ("none": never dropped)
    \* --- broker
    topic,          \* messages produced to the topic, by offset
    kpos,           \* next offset the consumer group reads
    \* --- DataSourceManager
    current_source, \* 0 = None, else the id of the adapter held
    current_type,   \* "none", "kafka", "file_watcher"
    nAdapters,      \* adapters constructed so far
    \* --- the adapter held in current_source
    srcKind,        \* class of the adapter: "none", "kafka", "file_watcher"
    wConn,          \* BaseDataSource.is_connected (the wrapper's flag)
    kConsumer,      \* FinancialStatementConsumer.consumer: "none","open","closed"
    fwConn,         \* FinancialStatementFileWatcher.is_connected
    file_queue,     \* FinancialStatementFileWatcher.file_queue
    observer,       \* "none", "unstarted", "alive", "stopped"
    processExisting,\* FileWatcherConfig.process_existing
    \* --- observer thread
    events,         \* events waiting to be dispatched to the handler
    hpc, hfile,     \* handler position and the path of its event
    hidx,           \* the handler's position in file_queue during its "not in" test
    redelivered,    \* events reported for a path that was reported before
    \* --- caller thread
    pc, cont, cres, \* position, who called connect, connect's result
    scanList,       \* json_files of _scan_existing_files
    batch_size, timeout, elapsed,
    messages,       \* consume_batch's list
    max_messages, message_count, processed_files,
    cur, idx,       \* file_path and position in its data
    \* --- history
    last,           \* the last public call and how it ended
    readBy,         \* files this adapter has read and yielded from
    dupRead,        \* a file was yielded from twice by this adapter
    bothApplied,    \* a dequeued file handed to _move_file_to_error was also noted for _archive_file
    drainPre,       \* the queue held >= batch_size records of present valid files at the call
    slept,          \* consume_batch slept in this call
    atCrash,        \* what the process that crashed last had in hand
    skipped,        \* files a backlog scan of this adapter found not ready
    \* --- the DAG's consume task
    task            \* "none" (no DAG run), "init", "consume", "close", "end"

arcVars  == <<archiveNames, nArchived, second>>
fsVars   == <<inputDir, archiveDir, errorDir, reportDir, kind, arcVars>>
brkVars  == <<topic, kpos>>
mgrVars  == <<current_source, current_type, nAdapters>>
adVars   == <<srcKind, wConn, kConsumer, fwConn, file_queue, observer, processExisting>>
obsVars  == <<events, hpc, hfile, hidx, redelivered>>
callVars == <<batch_size, timeout, elapsed, messages, max_messages, message_count,
              processed_files, cur, idx>>
\* the history, and with it the DAG task's position, which the adapter's and
\* the manager's steps leave alone
histVars == <<last, readBy, dupRead, bothApplied, drainPre, slept, atCrash, skipped,
              task>>
vars == <<fsVars, brkVars, mgrVars, adVars, obsVars, pc, cont, cres, scanList,
          callVars, histVars>>

\* ------------------------------------------------------------ helpers
Range(s) == {s[i] : i \in 1..Len(s)}

Remove(s, x) == SelectSeq(s, LAMBDA y : y # x)

Min(a, b) == IF a < b THEN a ELSE b

\* Path.exists() for a path of the input directory
Exists(f) == f \in Range(inputDir)

\* number of records json.load gives for a file of this kind
NumRecords(k) == CASE k = "obj" -> 1 [] k = "list" -> ListLen [] OTHER -> 0

\* a record: the file it came from (0: the broker) and its position
Rec(f, i) == <<f, i>>

FilesOf(msgs) == {msgs[i][1] : i \in 1..Len(msgs)} \ {0}

RECURSIVE SumRecords(_)
SumRecords(q) == IF q = <<>> THEN 0
                 ELSE NumRecords(kind[Head(q)]) + SumRecords(Tail(q))

\* the record of a public call: what was called, how it ended ("true", "false",
\* "returned", "raised", "pending"), the close() calls it made on the adapter held
\* before, that adapter, whether a new adapter was constructed, connect's result
\* ("already" while a connect that found the watcher connected returns),
\* file_queue as it was when consume_batch or connect was called, the input
\* directory (in modification-time order) as the call's backlog scan listed it,
\* whether a move or a report of _move_file_to_error failed during the call,
\* whether stopping the observer or closing the consumer threw in its close(),
\* whether both the move and the unlink of an _archive_file failed, and for
\* create_data_source the class of the adapter it returned, the configuration
\* that adapter was given and whether the adapter's constructor threw
NoCall == [op |-> "none", arg |-> "none", auto |-> FALSE, ret |-> "none",
           closed |-> 0, prev |-> 0, prevKind |-> "none", built |-> FALSE,
           connected |-> "none", queue |-> <<>>, dir |-> <<>>, ioFailed |-> FALSE,
           closeFailed |-> FALSE, unlinkFailed |-> FALSE,
           made |-> "none", given |-> "None", config |-> "none",
           ctorFailed |-> FALSE]

\* what a crash leaves to be told: the files that were queued or dequeued and
\* not yet handed to _archive_file or _move_file_to_error, and the files the
\* process had yielded records from
NoCrash == [held |-> {}, read |-> {}]

\* ------------------------------------------------- faulty variants
\* What single steps of the code would be if written wrongly; the properties
\* below are also checked against the model with one of these put in.

\* the except branch, were it to note the file as processed
QuarantinedAlsoProcessed(pf, f) == Append(pf, f)

\* the broker generator, were it never to see its limit reached
LimitNeverReached(count, maxm) == FALSE

\* the generator's loop, were it never to run
LoopNeverRuns == FALSE

\* consume_batch's while test, were it to give up at once
NeverWaits(msgs, now) == FALSE

\* initialize_source, were it to close the adapter it holds twice
ClosesTwice == IF current_source # 0 THEN 2 ELSE 0

\* get_status, were it to raise without a source
StatusRaises == "raised"

\* initialize_source, were it to report success whatever connect returned
AlwaysSucceeds(auto, connected) == "true"

\* the pop, were it to take the newest path
PopNewest(q) == [file |-> q[Len(q)], rest |-> SubSeq(q, 1, Len(q) - 1)]

\* the scan, were it to queue the files in the order glob listed them
Unsorted(listed) == listed

\* the except branch, were it to leave the loop
LeavesLoop == "g_arch"

\* KafkaDataSource.connect, were a failed attempt to leave the flag as it was
KeepsFlagOnFailure(ok) ==
    [kConsumer |-> IF ok THEN "open" ELSE kConsumer, wConn |-> ok \/ wConn]

\* connect, were it to set is_connected before starting the observer
FlagSetBeforeStart(ok) == TRUE

\* initialize_source, were it to drop the adapter it holds (and keep
\* current_type) when the new one cannot be constructed
SourceDropped == IF current_source # 0 THEN 0 ELSE current_source

\* create_data_source, were it to use the default configuration always
AlwaysDefault(type, cfg) ==
    IF type = "kafka" THEN "KAFKA_CONFIG" ELSE "file_watcher_defaults"

\* _is_file_ready, were it to look at nothing but exists()
ReadyIfExists(f) == Exists(f)

\* _is_file_ready, were it to find no file ready
NeverReady(f) == FALSE

\* _archive_file, were it not to unlink after a failed move
ArchivedOrLeft(f, moveOk, unlinkOk) ==
    LET moved == Exists(f) /\ moveOk
    IN [inputDir   |-> IF moved THEN Remove(inputDir, f) ELSE inputDir,
        archiveDir |-> IF moved THEN archiveDir \cup {f} ELSE archiveDir]

\* _move_file_to_error, were the move to put something into the error
\* directory although the file is gone
MovedThoughGone(f, moveOk, reportOk) ==
    [inputDir  |-> Remove(inputDir, f),
     errorDir  |-> IF moveOk THEN errorDir \cup {f} ELSE errorDir,
     reportDir |-> IF moveOk /\ reportOk THEN reportDir \cup {f} ELSE reportDir]

\* connect, were it not to look at is_connected
NeverConnectedYet == FALSE

\* the adapter's close(), were it to let the exception out
CloseRaises(closeOk) == ~closeOk

\* the wait loop, were it to ask for a whole batch again
WholeBatchAgain(msgs) == batch_size

\* ------------------------------------------------------------- Init
\* DataSourceManager.__init__: no source; the directories are empty and the
\* topic holds nothing yet.
Init ==
    /\ inputDir = <<>> /\ archiveDir = {} /\ errorDir = {} /\ reportDir = {}
    /\ archiveNames = {} /\ nArchived = 0 /\ second = 0
    /\ kind = [f \in Files |-> "none"]
    /\ topic = <<>> /\ kpos = 1
    /\ current_source = 0 /\ current_type = "none" /\ nAdapters = 0
    /\ srcKind = "none" /\ wConn = FALSE /\ kConsumer = "none" /\ fwConn = FALSE
    /\ file_queue = <<>> /\ observer = "none" /\ processExisting = TRUE
    /\ events = <<>> /\ hpc = "idle" /\ hfile = 0 /\ hidx = 0 /\ redelivered = 0
    /\ pc = "idle" /\ cont = "none" /\ cres = FALSE /\ scanList = <<>>
    /\ batch_size = 0 /\ timeout = 0 /\ elapsed = 0 /\ messages = <<>>
    /\ max_messages = 0 /\ message_count = 0 /\ processed_files = <<>>
    /\ cur = 0 /\ idx = 0
    /\ last = NoCall /\ readBy = {} /\ dupRead = FALSE
    /\ bothApplied = FALSE /\ drainPre = FALSE /\ slept = FALSE
    /\ atCrash = NoCrash /\ skipped = {}
    /\ task = "none"

\* ------------------------------------------------------ environment
\* A producer drops a new .json file into the input directory; a running
\* observer gets its created/moved event.
CreateFile(f, k) ==
    /\ kind[f] = "none"
    /\ kind' = [kind EXCEPT ![f] = k]
    /\ inputDir' = Append(inputDir, f)
    /\ events' = IF observer = "alive" THEN Append(events, f) ELSE events
    /\ UNCHANGED <<archiveDir, arcVars, errorDir, reportDir, brkVars, mgrVars, adVars,
                   hpc, hfile, hidx, redelivered, pc, cont, cres, scanList, callVars,
                   histVars>>

\* The observer reports a path that is already in the directory once more (the
\* producer renames a file over it, which keeps the modification time): an
\* event for a path that may already have been queued or popped.
Redeliver(f) ==
    /\ Exists(f) /\ observer = "alive" /\ redelivered < MaxEvents
    /\ redelivered' = redelivered + 1
    /\ events' = Append(events, f)
    /\ UNCHANGED <<fsVars, brkVars, mgrVars, adVars,
                   hpc, hfile, hidx, pc, cont, cres, scanList, callVars, histVars>>

\* The producer drops a file under a name that was used before and whose
\* earlier file the watcher has archived.
Reuse(f, k) ==
    /\ f \in archiveDir /\ ~Exists(f) /\ nArchived < MaxArchived
    /\ kind' = [kind EXCEPT ![f] = k]
    /\ inputDir' = Append(inputDir, f)
    /\ events' = IF observer = "alive" THEN Append(events, f) ELSE events
    /\ UNCHANGED <<archiveDir, arcVars, errorDir, reportDir, brkVars, mgrVars, adVars,
                   hpc, hfile, hidx, redelivered, pc, cont, cres, scanList, callVars,
                   histVars>>

\* The clock goes on to the next second.
Tick ==
    /\ second < MaxSecond
    /\ second' = second + 1
    /\ UNCHANGED <<inputDir, archiveDir, archiveNames, nArchived, errorDir, reportDir,
                   kind, brkVars, mgrVars, adVars, obsVars, pc, cont, cres, scanList,
                   callVars, histVars>>

\* Somebody else removes a file from the input directory.
Vanish(f) ==
    /\ Exists(f)
    /\ inputDir' = Remove(inputDir, f)
    /\ drainPre' = (drainPre /\ (pc = "idle" \/ f \notin Range(file_queue) \cup {cur}))
    /\ UNCHANGED <<archiveDir, arcVars, errorDir, reportDir, kind, brkVars, mgrVars, adVars,
                   obsVars, pc, cont, cres, scanList, callVars,
                   last, readBy, dupRead, bothApplied, slept, atCrash, skipped, task>>

\* The writer of a file completes it: the content is there, the size stays,
\* and the file is the newest by modification time. The observer reports
\* nothing the handler listens to (on_created and on_moved only).
FinishWrite(f, k) ==
    /\ Exists(f) /\ kind[f] \in {"empty", "writing"}
    /\ kind' = [kind EXCEPT ![f] = k]
    /\ inputDir' = Append(Remove(inputDir, f), f)
    /\ UNCHANGED <<archiveDir, arcVars, errorDir, reportDir, brkVars, mgrVars, adVars,
                   obsVars, pc, cont, cres, scanList, callVars, histVars>>

\* A message is produced to the topic.
Produce(k) ==
    /\ Len(topic) < MaxTopic
    /\ topic' = Append(topic, k)
    /\ UNCHANGED <<fsVars, kpos, mgrVars, adVars, obsVars, pc, cont, cres, scanList,
                   callVars, histVars>>

\* Log retention: the broker deletes the oldest message of the topic, which the
\* group has already read; offsets count from the start of what is kept. With
\* it the producer never runs out of room.
Retain ==
    /\ kpos > 1
    /\ topic' = Tail(topic) /\ kpos' = kpos - 1
    /\ UNCHANGED <<fsVars, mgrVars, adVars, obsVars, pc, cont, cres, scanList,
                   callVars, histVars>>

\* the files that are queued or dequeued and not yet handed to _archive_file
\* or _move_file_to_error
InHand ==
    Range(file_queue) \cup Range(processed_files)
        \cup (IF pc \in {"g_read", "g_yield"} THEN {cur} ELSE {})

\* The process dies, at any point of any call, and is started again: the new
\* process has a manager without a source and nothing of the old one's memory;
\* the directories and the topic are as they were. (nAdapters counts on.)
Crash ==
    /\ current_source # 0 /\ nAdapters < MaxAdapters
    /\ atCrash' = [held |-> InHand \cup (readBy \cap Range(inputDir)),
                   read |-> readBy]
    /\ current_source' = 0 /\ current_type' = "none" /\ nAdapters' = nAdapters
    /\ srcKind' = "none" /\ wConn' = FALSE /\ kConsumer' = "none" /\ fwConn' = FALSE
    /\ file_queue' = <<>> /\ observer' = "none" /\ processExisting' = TRUE
    /\ events' = <<>> /\ hpc' = "idle" /\ hfile' = 0 /\ hidx' = 0
    /\ redelivered' = redelivered
    /\ pc' = "idle" /\ cont' = "none" /\ cres' = FALSE /\ scanList' = <<>>
    /\ batch_size' = 0 /\ timeout' = 0 /\ elapsed' = 0 /\ messages' = <<>>
    /\ max_messages' = 0 /\ message_count' = 0 /\ processed_files' = <<>>
    /\ cur' = 0 /\ idx' = 0
    /\ last' = NoCall /\ readBy' = {} /\ dupRead' = dupRead
    /\ bothApplied' = bothApplied /\ drainPre' = FALSE /\ slept' = FALSE
    /\ skipped' = {}
    /\ UNCHANGED <<fsVars, brkVars, task>>

\* -------------------------------------------------- observer thread
\* add_file_to_queue's test
CanEnqueue(q, f) == Exists(f) /\ f \notin Range(q)

\* add_file_to_queue
AddToQueue(q, f) == IF CanEnqueue(q, f) THEN Append(q, f) ELSE q

\* on_created / on_moved: the observer hands the next event to the handler,
\* which sleeps one second first.
HandlerTake ==
    /\ observer = "alive" /\ hpc = "idle" /\ events # <<>>
    /\ hfile' = Head(events) /\ events' = Tail(events) /\ hpc' = "sleep"
    /\ UNCHANGED <<fsVars, brkVars, mgrVars, adVars, hidx, redelivered, pc, cont, cres,
                   scanList, callVars, histVars>>

\* add_file_to_queue, file_path.exists(): a path that is gone is dropped; else
\* the test "file_path not in self.file_queue" begins. While the observer runs
\* only the handler appends, so a queue that is empty now is empty when tested.
HandlerCheck ==
    /\ hpc = "sleep"
    /\ IF ~Exists(hfile)
       THEN hpc' = "idle" /\ hfile' = 0 /\ hidx' = 0
       ELSE IF file_queue = <<>>
       THEN hpc' = "append" /\ hfile' = hfile /\ hidx' = 0
       ELSE hpc' = "test" /\ hfile' = hfile /\ hidx' = 1
    /\ UNCHANGED <<fsVars, brkVars, mgrVars, adVars, events, redelivered, pc, cont,
                   cres, scanList, callVars, histVars>>

\* "file_path not in self.file_queue": the list is walked by index and each
\* element compared with Path.__eq__, between which the caller's thread may run
\* pop(0) and shift the elements; one comparison per step. Past the end of the
\* list (as it is now, or as it will be: it can only have shrunk) the path
\* was not found.
HandlerTest ==
    /\ hpc = "test"
    /\ IF hidx <= Len(file_queue) /\ file_queue[hidx] = hfile
       THEN hpc' = "idle" /\ hfile' = 0 /\ hidx' = 0
       ELSE IF hidx + 1 > Len(file_queue)
       THEN hpc' = "append" /\ hfile' = hfile /\ hidx' = 0
       ELSE hpc' = hpc /\ hfile' = hfile /\ hidx' = hidx + 1
    /\ UNCHANGED <<fsVars, brkVars, mgrVars, adVars, events, redelivered, pc, cont,
                   cres, scanList, callVars, histVars>>

\* add_file_to_queue, the append
HandlerAppend ==
    /\ hpc = "append"
    /\ file_queue' = Append(file_queue, hfile)
    /\ hpc' = "idle" /\ hfile' = 0
    /\ UNCHANGED <<fsVars, brkVars, mgrVars, srcKind, wConn, kConsumer, fwConn,
                   observer, processExisting, events, hidx, redelivered, pc, cont, cres,
                   scanList, callVars, histVars>>

\* The queue once observer.join() has let a running handler finish.
QueueAfterJoin ==
    CASE hpc = "sleep"  -> AddToQueue(file_queue, hfile)
      [] hpc = "test"   -> IF \E i \in hidx..Len(file_queue) : file_queue[i] = hfile
                           THEN file_queue ELSE Append(file_queue, hfile)
      [] hpc = "append" -> Append(file_queue, hfile)
      [] OTHER          -> file_queue

\* ------------------------------------------------- adapter: close
\* KafkaDataSource.close / FileWatcherDataSource.close on the adapter held;
\* ok: stopping the consumer or the observer did not throw.
ClosedAdapter(ok) ==
    IF srcKind = "kafka"
    THEN [wConn |-> IF kConsumer = "open" /\ ~ok THEN wConn ELSE FALSE,
          kConsumer |-> IF kConsumer = "open" /\ ok THEN "closed" ELSE kConsumer,
          fwConn |-> fwConn, file_queue |-> file_queue, observer |-> observer,
          events |-> events, hpc |-> hpc]
    ELSE IF observer = "alive"
         THEN IF ok
              THEN [wConn |-> FALSE, kConsumer |-> kConsumer, fwConn |-> FALSE,
                    file_queue |-> QueueAfterJoin, observer |-> "stopped",
                    events |-> <<>>, hpc |-> "idle"]
              ELSE [wConn |-> FALSE, kConsumer |-> kConsumer, fwConn |-> fwConn,
                    file_queue |-> file_queue, observer |-> observer,
                    events |-> events, hpc |-> hpc]
         ELSE [wConn |-> FALSE, kConsumer |-> kConsumer, fwConn |-> FALSE,
               file_queue |-> file_queue, observer |-> observer,
               events |-> events, hpc |-> hpc]

\* The adapter as it is: what a call that closes nothing leaves.
SameAdapter ==
    [wConn |-> wConn, kConsumer |-> kConsumer, fwConn |-> fwConn,
     file_queue |-> file_queue, observer |-> observer, events |-> events, hpc |-> hpc]

SetAdapter(a) ==
    /\ wConn' = a.wConn /\ kConsumer' = a.kConsumer /\ fwConn' = a.fwConn
    /\ file_queue' = a.file_queue /\ observer' = a.observer
    /\ events' = a.events /\ hpc' = a.hpc
    /\ hfile' = IF a.hpc = "idle" THEN 0 ELSE hfile
    /\ hidx' = IF a.hpc = "idle" THEN 0 ELSE hidx
    /\ redelivered' = redelivered

\* FinancialStatementConsumer.connect as KafkaDataSource.connect sees it:
\* the consumer handle and the wrapper's flag after the attempt.
KafkaConnect(ok) ==
    [kConsumer |-> IF ok THEN "open" ELSE kConsumer, wConn |-> ok]

\* where consume_messages starts: if not self.is_connected: connect()
GenEntry == IF fwConn THEN "g_loop" ELSE "c_begin"

\* what initialize_source returns once the adapter is constructed and, with
\* auto_connect, connect() has returned
InitializeResult(auto, connected) == IF auto /\ ~connected THEN "false" ELSE "true"

\* ------------------------------------------ file watcher: connect
\* what input_dir.glob("*.json") may return: the files of the directory in
\* any order
Listings(d) == {[i \in 1..Len(d) |-> d[p[i]]] : p \in Permutations(1..Len(d))}

\* connect's first test: if self.is_connected
AlreadyConnected == fwConn

\* FinancialStatementFileWatcher.connect up to the glob of
\* _scan_existing_files: already connected, it returns True at once
ConnectBegin(listing) ==
    /\ pc = "c_begin"
    /\ IF AlreadyConnected
       THEN /\ cres' = TRUE /\ pc' = "c_ret" /\ scanList' = scanList
            /\ last' = [last EXCEPT !.connected = "already"]
       ELSE IF processExisting
       THEN /\ cres' = cres /\ pc' = "c_sort" /\ scanList' = listing
            /\ last' = [last EXCEPT !.dir = inputDir]
       ELSE cres' = cres /\ pc' = "c_start" /\ scanList' = scanList /\ last' = last
    /\ UNCHANGED <<fsVars, brkVars, mgrVars, adVars, obsVars, cont,
                   callVars, readBy, dupRead, bothApplied, drainPre, slept, atCrash, skipped, task>>

\* json_files.sort(key = st_mtime): a listed file that is gone makes stat()
\* throw, which ends the scan
SortedByMtime(listed) ==
    IF Range(listed) \subseteq Range(inputDir)
    THEN SelectSeq(inputDir, LAMBDA f : f \in Range(listed))
    ELSE <<>>

ScanSort ==
    /\ pc = "c_sort"
    /\ scanList' = SortedByMtime(scanList)
    /\ pc' = "c_file"
    /\ UNCHANGED <<fsVars, brkVars, mgrVars, adVars, obsVars, cont, cres,
                   callVars, histVars>>

\* the two samples of st_size that _is_file_ready takes, 0.5 s apart: a file
\* of 0 bytes gives 0 and 0, one that is being written two different sizes, a
\* file that was dropped whole the same size (1 stands for any size > 0)
SizeSamples(f) ==
    CASE kind[f] = "empty"   -> <<0, 0>>
      [] kind[f] = "writing" -> <<1, 2>>
      [] OTHER               -> <<1, 1>>

\* _is_file_ready: the file is still there, its size is stable and > 0
IsFileReady(f) ==
    /\ Exists(f)
    /\ SizeSamples(f)[1] = SizeSamples(f)[2] /\ SizeSamples(f)[2] > 0

\* the loop over json_files
ScanFile ==
    /\ pc = "c_file"
    /\ IF scanList = <<>>
       THEN /\ pc' = "c_start"
            /\ UNCHANGED <<scanList, file_queue>>
       ELSE /\ file_queue' = IF IsFileReady(Head(scanList))
                             THEN AddToQueue(file_queue, Head(scanList))
                             ELSE file_queue
            /\ scanList' = Tail(scanList)
            /\ pc' = pc
    /\ skipped' = IF scanList # <<>> /\ Exists(Head(scanList))
                                     /\ ~IsFileReady(Head(scanList))
                  THEN skipped \cup {Head(scanList)} ELSE skipped
    /\ UNCHANGED <<fsVars, brkVars, mgrVars, srcKind, wConn, kConsumer, fwConn,
                   observer, processExisting, obsVars, cont, cres, callVars,
                   last, readBy, dupRead, bothApplied, drainPre, slept, atCrash, task>>

\* is_connected after the try block of connect: set once start() has returned
FlagAfterStart(ok) == ok

\* Observer(); schedule; start; is_connected = True - or the except branch
ObserverStart(ok) ==
    /\ pc = "c_start"
    /\ observer' = IF ok THEN "alive" ELSE "unstarted"
    /\ fwConn' = FlagAfterStart(ok)
    /\ cres' = ok
    /\ pc' = "c_ret"
    /\ UNCHANGED <<fsVars, brkVars, mgrVars, srcKind, wConn, kConsumer, file_queue,
                   processExisting, obsVars, cont, scanList, callVars, histVars>>

\* connect returns to FileWatcherDataSource.connect, called by initialize_source
\* or by the caller
ConnectReturnWrapper ==
    /\ pc = "c_ret" /\ cont \in {"init", "adapter"}
    /\ wConn' = cres
    /\ last' = [last EXCEPT !.ret = IF cont = "init"
                                     THEN InitializeResult(last.auto, cres)
                                     ELSE IF cres THEN "true" ELSE "false",
                            !.connected = IF cres THEN "true" ELSE "false"]
    /\ pc' = "done" /\ cont' = "none" /\ cres' = FALSE
    /\ UNCHANGED <<fsVars, brkVars, mgrVars, srcKind, kConsumer, fwConn, file_queue,
                   observer, processExisting, obsVars, scanList, callVars,
                   readBy, dupRead, bothApplied, drainPre, slept, atCrash, skipped, task>>

\* connect returns to consume_messages, which goes on or raises RuntimeError
ConnectReturnGen ==
    /\ pc = "c_ret" /\ cont = "gen"
    /\ IF cres
       THEN /\ pc' = "g_loop" /\ message_count' = 0 /\ processed_files' = <<>>
            /\ last' = last
       ELSE /\ pc' = "done" /\ UNCHANGED <<message_count, processed_files>>
            /\ last' = [last EXCEPT !.ret = "raised"]
    /\ cont' = "none" /\ cres' = FALSE
    /\ UNCHANGED <<fsVars, brkVars, mgrVars, adVars, obsVars, scanList,
                   batch_size, timeout, elapsed, messages, max_messages, cur, idx,
                   readBy, dupRead, bothApplied, drainPre, slept, atCrash, skipped, task>>

\* ------------------------------------------------ DataSourceManager
\* DataSourceType(source_type.lower())
Lower(arg) == CASE arg = "FILE_WATCHER" -> "file_watcher"
                [] arg = "Kafka"        -> "kafka"
                [] OTHER                -> arg

\* the members of DataSourceType, by value
DataSourceType == {"kafka", "file_watcher"}

\* what a caller may pass as source_type: a string, or a member of the enum
FactoryArgs == SourceArgs \cup {"Kafka", "DataSourceType.KAFKA",
                                "DataSourceType.FILE_WATCHER"}

\* create_data_source: a string is turned into DataSourceType(s.lower()),
\* which raises ValueError for a value that is no member ("none" here); a
\* member is taken as it is
AsType(arg) ==
    CASE arg = "DataSourceType.KAFKA"        -> "kafka"
      [] arg = "DataSourceType.FILE_WATCHER" -> "file_watcher"
      [] Lower(arg) \in DataSourceType       -> Lower(arg)
      [] OTHER                               -> "none"

\* _get_default_config
DefaultConfig(type) ==
    CASE type = "kafka"        -> "KAFKA_CONFIG"
      [] type = "file_watcher" -> "file_watcher_defaults"
      [] OTHER                 -> "empty"

\* if config is None: config = self._get_default_config(source_type)
ConfigUsed(type, cfg) == IF cfg = "None" THEN DefaultConfig(type) ELSE cfg

\* DataSourceFactory.create_data_source(source_type, config), called on a
\* factory: the adapter of the kind's class is constructed with the
\* configuration, or the error is logged and raised again. ctorOk: the
\* adapter's constructor did not throw (only the file watcher's can: it makes
\* its directories).
CreateDataSource(arg, cfg, ctorOk) ==
    /\ pc = "idle"
    /\ LET type == AsType(arg)
           ok   == type # "none" /\ (type = "file_watcher" => ctorOk)
       IN last' = [NoCall EXCEPT !.op = "create_data_source", !.arg = arg,
                                 !.ret = IF ok THEN "returned" ELSE "raised",
                                 !.built = ok,
                                 !.made = IF ok THEN type ELSE "none",
                                 !.given = cfg,
                                 !.config = IF ok THEN ConfigUsed(type, cfg) ELSE "none",
                                 !.ctorFailed = (type = "file_watcher" /\ ~ctorOk)]
    /\ pc' = "done"
    /\ UNCHANGED <<fsVars, brkVars, mgrVars, adVars, obsVars, cont, cres, scanList,
                   callVars, readBy, dupRead, bothApplied, drainPre, slept, atCrash,
                   skipped, task>>

\* DataSourceFactory.create_data_source returns an adapter: the kind is a
\* member of DataSourceType and the adapter's constructor does not throw
\* (FileWatcherConfig builds paths and directories from the caller's map).
Constructs(arg, cfgOk) ==
    /\ Lower(arg) \in {"kafka", "file_watcher"}
    /\ (Lower(arg) = "file_watcher" => cfgOk)

\* whether what stop() or the consumer's close() threw leaves the adapter's
\* close(): its try/except logs it
ClosePropagates(closeOk) == FALSE

\* close() calls initialize_source makes on the adapter it holds
ClosesOfInitialize == IF current_source # 0 THEN 1 ELSE 0

\* current_source after initialize_source could not construct the adapter
SourceAfterFailedCreate == current_source

\* initialize_source(source_type, config, auto_connect); switch_source is the
\* same call with auto_connect = True. The file watcher's connect runs in steps
\* (c_begin ...) and ends the call in ConnectReturnWrapper.
InitializeSource(op, arg, cfgOk, auto, pe, closeOk, brokerOk) ==
    /\ pc = "idle" /\ nAdapters < MaxAdapters
    /\ LET closedA == IF current_source # 0 THEN ClosedAdapter(closeOk) ELSE SameAdapter
           call == [op |-> op, arg |-> arg, auto |-> auto, ret |-> "pending",
                    closed |-> ClosesOfInitialize, prev |-> current_source,
                    prevKind |-> IF current_source # 0 THEN srcKind ELSE "none",
                    built |-> FALSE, connected |-> "none", queue |-> <<>>,
                    dir |-> <<>>, ioFailed |-> FALSE,
                    closeFailed |-> (current_source # 0 /\ ~closeOk),
                    unlinkFailed |-> FALSE,
                    made |-> "none", given |-> "None", config |-> "none",
                    ctorFailed |-> FALSE]
       IN IF ~Constructs(arg, cfgOk) \/ (current_source # 0 /\ ClosePropagates(closeOk))
          THEN /\ SetAdapter(closedA)
               /\ current_source' = SourceAfterFailedCreate
               /\ last' = [call EXCEPT !.ret = "false"]
               /\ pc' = "done"
               /\ UNCHANGED <<current_type, nAdapters, srcKind, processExisting,
                              cont, readBy, skipped, task>>
          ELSE /\ nAdapters' = nAdapters + 1
               /\ current_source' = nAdapters + 1
               /\ current_type' = Lower(arg)
               /\ srcKind' = Lower(arg)
               /\ processExisting' = pe
               /\ fwConn' = FALSE /\ file_queue' = <<>> /\ observer' = "none"
               /\ events' = <<>> /\ hpc' = "idle" /\ hfile' = 0 /\ hidx' = 0
               /\ redelivered' = redelivered
               /\ readBy' = {} /\ skipped' = {}
               /\ IF ~auto
                  THEN /\ wConn' = FALSE /\ kConsumer' = "none"
                       /\ last' = [call EXCEPT !.ret = InitializeResult(auto, FALSE),
                                               !.built = TRUE]
                       /\ pc' = "done" /\ cont' = cont
                  ELSE IF Lower(arg) = "kafka"
                  THEN /\ wConn' = brokerOk
                       /\ kConsumer' = IF brokerOk THEN "open" ELSE "none"
                       /\ last' = [call EXCEPT !.built = TRUE,
                                     !.ret = InitializeResult(auto, brokerOk),
                                     !.connected = IF brokerOk THEN "true" ELSE "false"]
                       /\ pc' = "done" /\ cont' = cont
                  ELSE /\ wConn' = FALSE /\ kConsumer' = "none"
                       /\ last' = [call EXCEPT !.built = TRUE]
                       /\ pc' = "c_begin" /\ cont' = "init"
    /\ UNCHANGED <<fsVars, brkVars, cres, scanList, callVars,
                   dupRead, bothApplied, drainPre, slept, atCrash, task>>

\* DataSourceManager.close
MgrClose(closeOk) ==
    /\ pc = "idle"
    /\ IF current_source # 0
       THEN /\ SetAdapter(ClosedAdapter(closeOk))
            /\ current_source' = 0 /\ current_type' = "none"
            /\ last' = [NoCall EXCEPT !.op = "close", !.ret = "returned", !.closed = 1,
                                      !.prev = current_source, !.prevKind = srcKind,
                                      !.closeFailed = ~closeOk]
       ELSE /\ UNCHANGED <<wConn, kConsumer, fwConn, file_queue, observer, events, hpc,
                           hfile, hidx, redelivered, current_source, current_type>>
            /\ last' = [NoCall EXCEPT !.op = "close", !.ret = "returned"]
    /\ pc' = "done"
    /\ UNCHANGED <<fsVars, brkVars, nAdapters, srcKind, processExisting,
                   cont, cres, scanList, callVars,
                   readBy, dupRead, bothApplied, drainPre, slept, atCrash, skipped, task>>

\* get_status()['source_status']['is_connected']: get_statistics' entry
\* overrides the wrapper's for the file watcher
StatusConnected == IF srcKind = "file_watcher" THEN fwConn ELSE wConn

\* get_status with no source: {'status': 'no_source_initialized'}
NoSourceStatus == "no_source_initialized"

\* DataSourceManager.get_status
MgrGetStatus ==
    /\ pc = "idle"
    /\ last' = IF current_source = 0
               THEN [NoCall EXCEPT !.op = "get_status", !.ret = NoSourceStatus]
               ELSE [NoCall EXCEPT !.op = "get_status", !.ret = "returned",
                                   !.arg = current_type, !.prev = current_source,
                                   !.prevKind = srcKind,
                                   !.connected = IF StatusConnected THEN "true" ELSE "false"]
    /\ pc' = "done"
    /\ UNCHANGED <<fsVars, brkVars, mgrVars, adVars, obsVars, cont, cres, scanList,
                   callVars, readBy, dupRead, bothApplied, drainPre, slept, atCrash, skipped, task>>

\* The queue holds only present, parsable files, with at least n records in all.
QueueHolds(n) ==
    /\ \A i \in 1..Len(file_queue) :
          Exists(file_queue[i]) /\ kind[file_queue[i]] \in {"obj", "list"}
    /\ SumRecords(file_queue) >= n

\* DataSourceManager.consume_batch(batch_size, timeout_ms): raises with no
\* source, else enters the adapter's consume_batch
MgrConsumeBatch(n, t) ==
    /\ pc = "idle"
    /\ IF current_source = 0
       THEN /\ last' = [NoCall EXCEPT !.op = "consume_batch", !.ret = "raised"]
            /\ pc' = "done"
            /\ UNCHANGED <<callVars, drainPre, slept, cont>>
       ELSE /\ last' = [NoCall EXCEPT !.op = "consume_batch", !.ret = "pending",
                                      !.prev = current_source, !.prevKind = srcKind,
                                      !.queue = file_queue]
            /\ pc' = IF srcKind = "kafka" THEN "k_start" ELSE GenEntry
            /\ cont' = IF srcKind = "kafka" \/ fwConn THEN cont ELSE "gen"
            /\ batch_size' = n /\ timeout' = t /\ elapsed' = 0 /\ messages' = <<>>
            /\ max_messages' = n /\ message_count' = 0 /\ processed_files' = <<>>
            /\ cur' = 0 /\ idx' = 0
            /\ drainPre' = (srcKind = "file_watcher" /\ fwConn /\ QueueHolds(n))
            /\ slept' = FALSE
    /\ UNCHANGED <<fsVars, brkVars, mgrVars, adVars, obsVars, cres, scanList,
                   readBy, dupRead, bothApplied, atCrash, skipped, task>>

\* connect() called on the adapter held (get_current_source().connect())
AdapterConnect(brokerOk) ==
    /\ pc = "idle" /\ current_source # 0
    /\ LET call == [NoCall EXCEPT !.op = "connect", !.ret = "pending",
                                  !.prev = current_source, !.prevKind = srcKind,
                                  !.queue = file_queue]
       IN IF srcKind = "kafka"
          THEN /\ wConn' = KafkaConnect(brokerOk).wConn
               /\ kConsumer' = KafkaConnect(brokerOk).kConsumer
               /\ last' = [call EXCEPT !.ret = IF brokerOk THEN "true" ELSE "false",
                                       !.connected = IF brokerOk THEN "true" ELSE "false"]
               /\ pc' = "done" /\ cont' = cont
          ELSE /\ UNCHANGED <<wConn, kConsumer>>
               /\ last' = call
               /\ pc' = "c_begin" /\ cont' = "adapter"
    /\ UNCHANGED <<fsVars, brkVars, mgrVars, srcKind, fwConn, file_queue, observer,
                   processExisting, obsVars, cres, scanList, callVars,
                   readBy, dupRead, bothApplied, drainPre, slept, atCrash, skipped, task>>

\* close() called on the adapter held
AdapterClose(closeOk) ==
    /\ pc = "idle" /\ current_source # 0
    /\ SetAdapter(ClosedAdapter(closeOk))
    /\ last' = [NoCall EXCEPT !.op = "adapter_close", !.ret = "returned", !.closed = 1,
                              !.prev = current_source, !.prevKind = srcKind,
                              !.closeFailed = ~closeOk]
    /\ pc' = "done"
    /\ UNCHANGED <<fsVars, brkVars, mgrVars, srcKind, processExisting,
                   cont, cres, scanList, callVars,
                   readBy, dupRead, bothApplied, drainPre, slept, atCrash, skipped, task>>

\* close() called on the adapter held once more, straight after a close()
AdapterCloseAgain(closeOk) ==
    /\ pc = "done" /\ last.op = "adapter_close" /\ last.closed = 1
    /\ SetAdapter(ClosedAdapter(closeOk))
    /\ last' = [last EXCEPT !.closed = 2, !.closeFailed = @ \/ ~closeOk]
    /\ pc' = pc
    /\ UNCHANGED <<fsVars, brkVars, mgrVars, srcKind, processExisting,
                   cont, cres, scanList, callVars,
                   readBy, dupRead, bothApplied, drainPre, slept, atCrash, skipped, task>>

\* financial_statement_dag.consume_messages, the statement after a call that
\* ended with ret: initialize_source, then consume_batch, then (in finally)
\* close; a False from initialize_source and whatever is raised lead to the
\* finally block. Outside a DAG run the caller is free.
AfterCall(at, ret) ==
    CASE at = "init"    -> IF ret = "true" THEN "consume" ELSE "close"
      [] at = "consume" -> "close"
      [] at = "close"   -> "end"
      [] OTHER          -> at

\* The caller has the call's result and goes on to its next call.
Return ==
    /\ pc = "done"
    /\ pc' = "idle"
    /\ last' = NoCall
    /\ batch_size' = 0 /\ timeout' = 0 /\ elapsed' = 0 /\ messages' = <<>>
    /\ max_messages' = 0 /\ message_count' = 0 /\ processed_files' = <<>>
    /\ cur' = 0 /\ idx' = 0
    /\ drainPre' = FALSE /\ slept' = FALSE
    /\ task' = AfterCall(task, last.ret)
    /\ UNCHANGED <<fsVars, brkVars, mgrVars, adVars, obsVars, cont, cres, scanList,
                   readBy, dupRead, bothApplied, atCrash, skipped>>

\* ------------------------------- file watcher: consume_messages
\* consume_messages is a generator: consume_batch runs it up to each yield,
\* and leaves it suspended for good once the batch is full.

\* while message_count < max_messages and self.file_queue
LoopCond == message_count < max_messages /\ file_queue # <<>>

\* self.file_queue.pop(0): the path taken and the queue that is left
Pop(q) == [file |-> Head(q), rest |-> Tail(q)]

\* the loop head: file_queue.pop(0) and the exists() test (a path that is
\* gone is skipped), or on to the archiving loop
GenLoop ==
    /\ pc = "g_loop"
    /\ IF LoopCond
       THEN /\ file_queue' = Pop(file_queue).rest
            /\ IF Exists(Pop(file_queue).file)
               THEN cur' = Pop(file_queue).file /\ pc' = "g_read"
               ELSE cur' = 0 /\ pc' = pc
       ELSE /\ pc' = "g_arch" /\ UNCHANGED <<cur, file_queue>>
    /\ UNCHANGED <<fsVars, brkVars, mgrVars, srcKind, wConn, kConsumer, fwConn,
                   observer, processExisting, obsVars, cont, cres, scanList,
                   batch_size, timeout, elapsed, messages, max_messages,
                   message_count, processed_files, idx, histVars>>

\* open + json.load: the file is readable and parses
Parses(f) == Exists(f) /\ kind[f] \in {"obj", "list"}

\* _move_file_to_error: shutil.move, then the .error.txt report; each may fail
MovedToError(f, moveOk, reportOk) ==
    LET moved == Exists(f) /\ moveOk
    IN [inputDir  |-> IF moved THEN Remove(inputDir, f) ELSE inputDir,
        errorDir  |-> IF moved THEN errorDir \cup {f} ELSE errorDir,
        reportDir |-> IF moved /\ reportOk THEN reportDir \cup {f} ELSE reportDir]

\* processed_files after an except branch: the branch ends in continue, so the
\* quarantined file is not noted as processed
AfterQuarantine(pf, f) == pf

\* where an except branch goes on: continue, the loop head
AfterExcept == "g_loop"

\* the read: data is loaded, or the except branches quarantine the file and
\* continue
GenRead(moveOk, reportOk) ==
    /\ pc = "g_read"
    /\ IF Parses(cur)
       THEN /\ idx' = 1 /\ pc' = "g_yield" /\ cur' = cur
            /\ UNCHANGED <<inputDir, errorDir, reportDir, processed_files, bothApplied,
                           last>>
       ELSE /\ LET e == MovedToError(cur, moveOk, reportOk)
               IN /\ inputDir' = e.inputDir /\ errorDir' = e.errorDir
                  /\ reportDir' = e.reportDir
            /\ last' = [last EXCEPT !.ioFailed = @ \/ ~moveOk \/ ~reportOk]
            /\ processed_files' = AfterQuarantine(processed_files, cur)
            /\ bothApplied' = (bothApplied \/ processed_files' # processed_files)
            /\ pc' = AfterExcept /\ idx' = idx /\ cur' = 0
    /\ UNCHANGED <<archiveDir, arcVars, kind, brkVars, mgrVars, adVars, obsVars, cont, cres,
                   scanList, batch_size, timeout, elapsed, messages, max_messages,
                   message_count, readBy, dupRead, drainPre, slept, atCrash, skipped, task>>

\* consume_batch's test after each append: if len(messages) >= batch_size: break
BatchFull(msgs) == Len(msgs) >= batch_size

\* yield item / yield data: consume_batch appends the record; if the batch is
\* full it breaks and the generator never runs again, else the generator goes
\* on to count the record and, after the last one, to note the file as processed
GenYield ==
    /\ pc = "g_yield"
    /\ IF kind[cur] = "list" /\ message_count >= max_messages
       THEN /\ processed_files' = Append(processed_files, cur)
            /\ pc' = "g_loop"
            /\ UNCHANGED <<messages, message_count, idx, cur, readBy, dupRead>>
       ELSE /\ messages' = Append(messages, Rec(cur, idx))
            /\ readBy' = readBy \cup {cur}
            /\ dupRead' = (dupRead \/ (idx = 1 /\ cur \in readBy))
            /\ IF BatchFull(messages')
               THEN /\ pc' = "cb_while"
                    /\ message_count' = 0 /\ idx' = 0 /\ processed_files' = <<>>
                    /\ cur' = 0
               ELSE /\ message_count' = message_count + 1
                    /\ IF idx < NumRecords(kind[cur])
                       THEN /\ idx' = idx + 1 /\ pc' = pc
                            /\ UNCHANGED processed_files
                       ELSE /\ processed_files' = Append(processed_files, cur)
                            /\ pc' = "g_loop" /\ idx' = 0
                    /\ cur' = cur
    /\ UNCHANGED <<fsVars, brkVars, mgrVars, adVars, obsVars, cont, cres, scanList,
                   batch_size, timeout, elapsed, max_messages,
                   last, bothApplied, drainPre, slept, atCrash, skipped, task>>

\* _archive_file: archive_name = f"{timestamp}_{file_path.name}", the
\* timestamp being datetime.now() to the second ('%Y%m%d_%H%M%S')
ArchiveName(f) == <<second, f>>

\* _archive_file: shutil.move to the archive; if that throws, unlink, and
\* whatever unlink throws is passed over
Archived(f, moveOk, unlinkOk) ==
    LET moved == Exists(f) /\ moveOk
    IN [inputDir   |-> IF moved \/ unlinkOk THEN Remove(inputDir, f) ELSE inputDir,
        archiveDir |-> IF moved THEN archiveDir \cup {f} ELSE archiveDir]

\* for file_path in processed_files: self._archive_file(file_path); then the
\* generator is exhausted and consume_batch's for loop ends
GenArchive(moveOk, unlinkOk) ==
    /\ pc = "g_arch"
    /\ IF processed_files = <<>>
       THEN /\ pc' = "cb_while" /\ message_count' = 0 /\ cur' = 0
            /\ UNCHANGED <<inputDir, archiveDir, arcVars, processed_files, last>>
       ELSE /\ LET a == Archived(Head(processed_files), moveOk, unlinkOk)
               IN inputDir' = a.inputDir /\ archiveDir' = a.archiveDir
            /\ IF Exists(Head(processed_files)) /\ moveOk
               THEN /\ archiveNames' = archiveNames
                                           \cup {ArchiveName(Head(processed_files))}
                    /\ nArchived' = nArchived + 1
               ELSE UNCHANGED <<archiveNames, nArchived>>
            /\ second' = second
            /\ last' = [last EXCEPT !.unlinkFailed = @ \/ (~moveOk /\ ~unlinkOk)]
            /\ processed_files' = Tail(processed_files)
            /\ pc' = pc /\ UNCHANGED <<message_count, cur>>
    /\ UNCHANGED <<errorDir, reportDir, kind, brkVars, mgrVars, adVars, obsVars,
                   cont, cres, scanList, batch_size, timeout, elapsed, messages,
                   max_messages, idx,
                   readBy, dupRead, bothApplied, drainPre, slept, atCrash, skipped, task>>

\* ---------------------------------- file watcher: consume_batch
\* while len(messages) < batch_size and (time.time() - start_time) < timeout_seconds
WaitCond(msgs, now) == Len(msgs) < batch_size /\ now < timeout

\* max_messages = batch_size - len(messages): what the wait loop asks of
\* consume_messages
StillMissing(msgs) == batch_size - Len(msgs)

\* the while loop; now: what time.time() - start_time gives at the test.
\* Sleep when the queue is empty, else run consume_messages for what is
\* missing; when the test fails, return messages
CbWhile(now) ==
    /\ pc = "cb_while" /\ now >= elapsed
    /\ IF WaitCond(messages, now)
       THEN IF file_queue = <<>>
            THEN /\ elapsed' = Min(now + PollingInterval, TimeCap)
                 /\ slept' = TRUE
                 /\ UNCHANGED <<pc, cont, max_messages, last>>
            ELSE /\ max_messages' = StillMissing(messages)
                 /\ pc' = GenEntry
                 /\ cont' = IF fwConn THEN cont ELSE "gen"
                 /\ elapsed' = now
                 /\ UNCHANGED <<slept, last>>
       ELSE /\ pc' = "done"
            /\ last' = [last EXCEPT !.ret = "returned"]
            /\ max_messages' = 0
            /\ elapsed' = now
            /\ UNCHANGED <<slept, cont>>
    /\ UNCHANGED <<fsVars, brkVars, mgrVars, adVars, obsVars, cres, scanList,
                   batch_size, timeout, messages, message_count, processed_files,
                   cur, idx, readBy, dupRead, bothApplied, drainPre, atCrash, skipped, task>>

\* --------------------------------------- broker: consume_batch
\* consume_messages: if not self.consumer: connect() or raise RuntimeError
KStart(brokerOk) ==
    /\ pc = "k_start"
    /\ IF kConsumer # "none"
       THEN /\ pc' = "k_iter" /\ UNCHANGED <<kConsumer, last>>
       ELSE IF brokerOk
       THEN /\ kConsumer' = "open" /\ pc' = "k_iter" /\ last' = last
       ELSE /\ pc' = "done" /\ last' = [last EXCEPT !.ret = "raised"]
            /\ UNCHANGED kConsumer
    /\ UNCHANGED <<fsVars, brkVars, mgrVars, srcKind, wConn, fwConn, file_queue,
                   observer, processExisting, obsVars, cont, cres, scanList, callVars,
                   readBy, dupRead, bothApplied, drainPre, slept, atCrash, skipped, task>>

\* if message_count >= max_messages: break
Exhausted(count, maxm) == count >= maxm

\* for message in self.consumer, a message being there: the deserializer
\* throws on a corrupt payload; past max_messages the loop breaks; a valid
\* message is yielded and appended, an invalid one skipped
KFetch ==
    /\ pc = "k_iter" /\ kConsumer = "open" /\ kpos <= Len(topic)
    /\ kpos' = kpos + 1
    /\ IF topic[kpos] = "corrupt"
       THEN /\ pc' = "done" /\ last' = [last EXCEPT !.ret = "raised"]
            /\ UNCHANGED <<messages, message_count>>
       ELSE IF Exhausted(message_count, max_messages)
       THEN /\ pc' = "done" /\ last' = [last EXCEPT !.ret = "returned"]
            /\ UNCHANGED <<messages, message_count>>
       ELSE IF topic[kpos] = "valid"
       THEN /\ messages' = Append(messages, Rec(0, kpos))
            /\ message_count' = message_count + 1
            /\ UNCHANGED <<pc, last>>
       ELSE UNCHANGED <<pc, last, messages, message_count>>
    /\ UNCHANGED <<fsVars, topic, mgrVars, adVars, obsVars, cont, cres, scanList,
                   batch_size, timeout, elapsed, max_messages, processed_files,
                   cur, idx, readBy, dupRead, bothApplied, drainPre, slept, atCrash, skipped, task>>

\* no message within consumer_timeout_ms, or the consumer was closed: the
\* iterator stops and consume_batch returns what it has
KStop ==
    /\ pc = "k_iter"
    /\ \/ kConsumer = "closed" /\ elapsed' = elapsed
       \/ /\ kConsumer = "open" /\ kpos > Len(topic)
          /\ elapsed' = elapsed + ConsumerTimeout
    /\ pc' = "done"
    /\ last' = [last EXCEPT !.ret = "returned"]
    /\ UNCHANGED <<fsVars, brkVars, mgrVars, adVars, obsVars, cont, cres, scanList,
                   batch_size, timeout, messages, max_messages, message_count,
                   processed_files, cur, idx,
                   readBy, dupRead, bothApplied, drainPre, slept, atCrash, skipped, task>>

\* ------------------------------------------------------------- Next
Environment ==
    \/ \E f \in Files, k \in SlowKinds : CreateFile(f, k)
    \/ \E f \in Files, k \in FileKinds : FinishWrite(f, k)
    \/ Crash
    \/ \E f \in Files : Redeliver(f)
    \/ \E f \in Files : Vanish(f)
    \/ \E k \in MsgKinds : Produce(k)

ObserverThread == HandlerTake \/ HandlerCheck \/ HandlerTest \/ HandlerAppend

FileWatcherConnect ==
    \/ \E listing \in Listings(inputDir) : ConnectBegin(listing)
    \/ ScanSort \/ ScanFile
    \/ \E ok \in BOOLEAN : ObserverStart(ok)
    \/ ConnectReturnWrapper \/ ConnectReturnGen

FileWatcherConsume ==
    \/ GenLoop
    \/ \E moveOk, reportOk \in BOOLEAN : GenRead(moveOk, reportOk)
    \/ GenYield
    \/ \E moveOk, unlinkOk \in BOOLEAN : GenArchive(moveOk, unlinkOk)
    \/ \E now \in 0..TimeCap : CbWhile(now)

KafkaConsume == (\E ok \in BOOLEAN : KStart(ok)) \/ KFetch \/ KStop

\* stop() or close() can only throw where there is something to stop
CloseOutcomes ==
    IF current_source # 0 /\ ((srcKind = "kafka" /\ kConsumer = "open")
                              \/ (srcKind = "file_watcher" /\ observer = "alive"))
    THEN BOOLEAN ELSE {TRUE}

Initialize(op, autos) ==
    \E arg \in SourceArgs, auto \in autos, closeOk \in CloseOutcomes :
      \E cfgOk \in (IF Lower(arg) = "file_watcher" THEN BOOLEAN ELSE {TRUE}) :
        \E pe \in (IF Lower(arg) = "file_watcher" /\ cfgOk THEN BOOLEAN ELSE {TRUE}),
           brokerOk \in (IF arg = "kafka" /\ auto THEN BOOLEAN ELSE {TRUE}) :
          InitializeSource(op, arg, cfgOk, auto, pe, closeOk, brokerOk)

Calls ==
    \/ Initialize("initialize_source", BOOLEAN)
    \/ Initialize("switch_source", {TRUE})
    \/ \E ok \in CloseOutcomes : MgrClose(ok)
    \/ MgrGetStatus
    \/ \E n \in 0..MaxBatch, t \in 0..MaxTimeout : MgrConsumeBatch(n, t)
    \/ \E ok \in (IF srcKind = "kafka" THEN BOOLEAN ELSE {TRUE}) : AdapterConnect(ok)
    \/ \E ok \in CloseOutcomes : AdapterClose(ok)
    \/ \E ok \in CloseOutcomes : AdapterCloseAgain(ok)
    \/ Return

Next ==
    \/ Environment \/ ObserverThread \/ Calls
    \/ FileWatcherConnect \/ FileWatcherConsume \/ KafkaConsume

Spec == Init /\ [][Next]_vars

\* ------------------------------------------------ one adapter
\* The manager constructs a single adapter, of either kind, and works with it:
\* files are dropped and removed while it runs, the observer reports each new
\* file once. The directory is read only by a file watcher and the topic only
\* by a broker adapter, so files are dropped while no broker adapter is held
\* and messages are produced while one is.
NextAdapter ==
    \/ \E f \in Files, k \in FileKinds : srcKind # "kafka" /\ CreateFile(f, k)
    \/ \E f \in Files : Vanish(f)
    \/ \E k \in MsgKinds : srcKind = "kafka" /\ Produce(k)
    \/ ObserverThread
    \/ nAdapters = 0 /\ Initialize("initialize_source", BOOLEAN)
    \/ \E n \in 0..MaxBatch, t \in 0..MaxTimeout : MgrConsumeBatch(n, t)
    \/ \E ok \in (IF srcKind = "kafka" THEN BOOLEAN ELSE {TRUE}) : AdapterConnect(ok)
    \/ \E ok \in CloseOutcomes : AdapterClose(ok)
    \/ \E ok \in CloseOutcomes : AdapterCloseAgain(ok)
    \/ Return
    \/ FileWatcherConnect \/ FileWatcherConsume \/ KafkaConsume

SpecAdapter == Init /\ [][NextAdapter]_vars

\* ------------------------------------------------ redelivery
\* One file watcher, connected once and never closed, whose observer may report
\* a path again: the backlog scan runs once, so a path reaches the queue a
\* second time only through a watch event. consume_batch is called with
\* timeout_ms = 0: each call drains the queue once and returns, the clock
\* standing still.
NextRedelivery ==
    \/ \E f \in Files, k \in FileKinds : CreateFile(f, k)
    \/ \E f \in Files : Redeliver(f)
    \/ \E f \in Files : Vanish(f)
    \/ ObserverThread
    \/ \E auto, pe \in BOOLEAN :
          nAdapters = 0 /\ InitializeSource("initialize_source", "file_watcher", TRUE,
                                            auto, pe, TRUE, TRUE)
    \/ \E n \in 0..MaxBatch : MgrConsumeBatch(n, 0)
    \/ Return
    \/ FileWatcherConnect
    \/ GenLoop
    \/ \E moveOk, reportOk \in BOOLEAN : GenRead(moveOk, reportOk)
    \/ GenYield
    \/ \E moveOk, unlinkOk \in BOOLEAN : GenArchive(moveOk, unlinkOk)
    \/ CbWhile(elapsed)

SpecRedelivery == Init /\ [][NextRedelivery]_vars

\* ------------------------------------------------ the manager
\* The manager's calls over up to MaxAdapters adapters of both kinds, the
\* input directory staying empty: the file watcher's scan and drain find
\* nothing to read.
NextManager ==
    \/ \E k \in MsgKinds : Produce(k)
    \/ Initialize("initialize_source", BOOLEAN)
    \/ Initialize("switch_source", {TRUE})
    \/ \E ok \in CloseOutcomes : MgrClose(ok)
    \/ MgrGetStatus
    \/ \E n \in 0..MaxBatch, t \in 0..MaxTimeout : MgrConsumeBatch(n, t)
    \/ Return
    \/ FileWatcherConnect
    \/ GenLoop
    \/ \E moveOk, unlinkOk \in BOOLEAN : GenArchive(moveOk, unlinkOk)
    \/ \E now \in 0..TimeCap : CbWhile(now)
    \/ KafkaConsume

SpecManager == Init /\ [][NextManager]_vars

\* ------------------------------------------------ the broker
\* One broker adapter on a topic that is produced to without end (retention
\* makes room). The caller's thread keeps running: inside consume_batch the
\* consumer's iterator either hands over the next message or, none having come
\* for consumer_timeout_ms, stops.
NextBroker ==
    \/ \E k \in MsgKinds : Produce(k)
    \/ Retain
    \/ \E auto, brokerOk \in BOOLEAN :
          nAdapters = 0 /\ InitializeSource("initialize_source", "kafka", TRUE,
                                            auto, TRUE, TRUE, brokerOk)
    \/ \E n \in 0..MaxBatch, t \in 0..MaxBrokerTimeout : MgrConsumeBatch(n, t)
    \/ Return
    \/ KafkaConsume

SpecBroker == Init /\ [][NextBroker]_vars /\ WF_vars(KafkaConsume)

\* ------------------------------------------------ crash and restart
\* One file watcher whose process may die at any point and be started again
\* with a new file watcher on the same directories. Nobody else removes files;
\* a producer may drop a file of 0 bytes. consume_batch is called with
\* timeout_ms = 0, the clock standing still.
NextRestart ==
    \/ \E f \in Files, k \in DropKinds : CreateFile(f, k)
    \/ Crash
    \/ ObserverThread
    \/ \E auto, pe \in BOOLEAN :
          current_source = 0 /\ InitializeSource("initialize_source", "file_watcher",
                                                 TRUE, auto, pe, TRUE, TRUE)
    \/ \E n \in 0..MaxBatch : MgrConsumeBatch(n, 0)
    \/ Return
    \/ FileWatcherConnect
    \/ GenLoop
    \/ \E moveOk, reportOk \in BOOLEAN : GenRead(moveOk, reportOk)
    \/ GenYield
    \/ \E moveOk, unlinkOk \in BOOLEAN : GenArchive(moveOk, unlinkOk)
    \/ CbWhile(elapsed)

SpecRestart == Init /\ [][NextRestart]_vars

\* ------------------------------------------------ the wait
\* One file watcher into whose directory files are dropped while consume_batch
\* waits, with timeouts long enough for the wait loop to sleep and test again.
NextWait ==
    \/ \E f \in Files, k \in FileKinds : CreateFile(f, k)
    \/ ObserverThread
    \/ \E auto, pe \in BOOLEAN :
          nAdapters = 0 /\ InitializeSource("initialize_source", "file_watcher", TRUE,
                                            auto, pe, TRUE, TRUE)
    \/ \E n \in 0..MaxBatch, t \in 0..TimeCap : MgrConsumeBatch(n, t)
    \/ Return
    \/ FileWatcherConnect
    \/ FileWatcherConsume

SpecWait == Init /\ [][NextWait]_vars

\* ------------------------------------------------ the backlog scan
\* One file watcher that is connected, closed and connected again while files
\* are being written, completed and removed: the backlog scan runs more than
\* once over the same adapter.
NextScan ==
    \/ \E f \in Files, k \in SlowKinds : CreateFile(f, k)
    \/ \E f \in Files, k \in FileKinds : FinishWrite(f, k)
    \/ \E f \in Files : Vanish(f)
    \/ ObserverThread
    \/ \E auto \in BOOLEAN :
          nAdapters = 0 /\ InitializeSource("initialize_source", "file_watcher", TRUE,
                                            auto, TRUE, TRUE, TRUE)
    \/ AdapterConnect(TRUE)
    \/ \E ok \in CloseOutcomes : AdapterClose(ok)
    \/ Return
    \/ \E listing \in Listings(inputDir) : ConnectBegin(listing)
    \/ ScanSort \/ ScanFile
    \/ \E ok \in BOOLEAN : ObserverStart(ok)
    \/ ConnectReturnWrapper

SpecScan == Init /\ [][NextScan]_vars

\* ------------------------------------------------ the factory
\* The manager's calls, and calls of create_data_source on a factory.
NextFactory ==
    \/ NextManager
    \/ \E arg \in FactoryArgs, cfg \in {"None", "given"}, ctorOk \in BOOLEAN :
          CreateDataSource(arg, cfg, ctorOk)

SpecFactory == Init /\ [][NextFactory]_vars

\* ------------------------------------------------ the DAG's consume task
\* A run of the task begins: a new process with DataSourceManager() and
\* nothing of the run before; the directories are as they were.
TaskStart ==
    /\ task \in {"none", "end"} /\ pc = "idle"
    /\ task' = "init"
    /\ current_source' = 0 /\ current_type' = "none" /\ nAdapters' = 0
    /\ srcKind' = "none" /\ wConn' = FALSE /\ kConsumer' = "none" /\ fwConn' = FALSE
    /\ file_queue' = <<>> /\ observer' = "none" /\ processExisting' = TRUE
    /\ events' = <<>> /\ hpc' = "idle" /\ hfile' = 0 /\ hidx' = 0
    /\ cont' = "none" /\ cres' = FALSE /\ scanList' = <<>>
    /\ readBy' = {} /\ skipped' = {}
    /\ UNCHANGED <<fsVars, brkVars, redelivered, pc, callVars, last, dupRead,
                   bothApplied, drainPre, slept, atCrash>>

\* the task's three calls, each where the task has come to it
TaskCalls ==
    \/ task = "init" /\ InitializeSource("initialize_source", "file_watcher", TRUE,
                                         TRUE, TRUE, TRUE, TRUE)
    \/ task = "consume" /\ \E n \in 1..MaxBatch : MgrConsumeBatch(n, MaxTimeout)
    \/ task = "close" /\ \E ok \in CloseOutcomes : MgrClose(ok)

\* what the task's thread does: its calls and the steps inside them, with no
\* failure of the file system
TaskThread ==
    \/ TaskStart \/ TaskCalls \/ Return
    \/ \E listing \in Listings(inputDir) : ConnectBegin(listing)
    \/ ScanSort \/ ScanFile \/ ObserverStart(TRUE) \/ ConnectReturnWrapper
    \/ GenLoop \/ GenRead(TRUE, TRUE) \/ GenYield \/ GenArchive(TRUE, TRUE)
    \/ \E now \in 0..TimeCap : CbWhile(now)

\* The task runs again and again (schedule_interval) on a directory into
\* which files are dropped and from which nobody else removes any.
NextDag ==
    \/ \E f \in Files, k \in FileKinds : CreateFile(f, k)
    \/ ObserverThread
    \/ TaskThread

\* The scheduler starts the next run and a run's thread keeps running; the
\* observer's thread is scheduled while it has an event.
SpecDag == Init /\ [][NextDag]_vars /\ WF_vars(TaskThread) /\ WF_vars(ObserverThread)

\* ------------------------------------------------ the archive
\* One file watcher that is connected, consumes, is closed and connected again
\* while the clock runs and the producer reuses the names of files that were
\* archived. Files are queued by the backlog scan; what is covered is the time
\* before the handler of a reused name's event has slept its second, so the
\* observer's events stay where they are.
NextArchive ==
    \/ \E f \in Files, k \in FileKinds : CreateFile(f, k)
    \/ \E f \in Files, k \in FileKinds : Reuse(f, k)
    \/ Tick
    \/ \E auto \in BOOLEAN :
          nAdapters = 0 /\ InitializeSource("initialize_source", "file_watcher", TRUE,
                                            auto, TRUE, TRUE, TRUE)
    \/ AdapterConnect(TRUE)
    \/ AdapterClose(TRUE)
    \/ \E n \in 1..MaxBatch : MgrConsumeBatch(n, 0)
    \/ Return
    \/ FileWatcherConnect
    \/ GenLoop \/ GenRead(TRUE, TRUE) \/ GenYield \/ GenArchive(TRUE, TRUE)
    \/ CbWhile(elapsed)

SpecArchive == Init /\ [][NextArchive]_vars

\* ================================================== the claims
\* a call of consume_batch has returned its list
Returned == pc = "done" /\ last.op = "consume_batch" /\ last.ret = "returned"

\* initialize_source or switch_source has ended
Initialized == pc = "done" /\ last.op \in {"initialize_source", "switch_source"}

\* C1: after consume_batch returns on the file watcher, no file whose records
\* are in the returned batch is still in the input directory (it was moved to
\* the archive), whatever the batch size. The code breaks this when the batch
\* reaches the requested size.
C1_YieldedFilesLeftInput ==
    (Returned /\ srcKind = "file_watcher") =>
        \A f \in FilesOf(messages) : ~Exists(f)

\* C2: no file is in both the archive and the error directory; a dequeued file
\* handed to _move_file_to_error is never also noted for _archive_file; and a
\* file in the error directory has contributed no record to any batch.
C2_ArchiveOrErrorNeverBoth ==
    /\ archiveDir \cap errorDir = {}
    /\ ~bothApplied
    /\ errorDir \cap (readBy \cup FilesOf(messages)) = {}

\* C2 witness: one call has quarantined a file and archived another
C2_Witness ==
    /\ pc = "done" /\ last.op = "consume_batch"
    /\ errorDir # {} /\ archiveDir # {} /\ reportDir # {}

\* C3: one file watcher delivers the records of a path at most once, also when
\* a watch event for the path arrives after it was popped and before it is
\* archived. The code delivers them again.
C3_DeliveredAtMostOnce == ~dupRead

\* C4: the list consume_batch(N, timeout) is building or has returned never
\* holds more than N records, on the file watcher, on the broker adapter and
\* through the manager.
C4_BatchAtMostN == Len(messages) <= batch_size

\* C4 witness: a call returned a full batch of one record cut out of a list file
C4_Witness ==
    /\ Returned /\ batch_size = 1 /\ Len(messages) = 1
    /\ messages[1][1] # 0 /\ kind[messages[1][1]] = "list"

\* C5: when the queue of a connected file watcher holds present valid files
\* with at least N records, consume_batch(N, timeout) has its N records when
\* the initial drain ends, and returns them without having slept.
C5_DrainFillsBatch ==
    (drainPre /\ last.op = "consume_batch" /\ pc \in {"cb_while", "done"}) =>
        (Len(messages) = batch_size /\ ~slept /\ last.ret # "raised")

\* C5 witness: such a call returned two records
C5_Witness == Returned /\ drainPre /\ batch_size = 2 /\ Len(messages) = 2

\* C6: on the file watcher, consume_batch(N, timeout) with N > 0 returns fewer
\* than N records only when at least timeout has elapsed since the call began.
C6_ShortOnlyAfterTimeout ==
    (Returned /\ srcKind = "file_watcher" /\ batch_size > 0
              /\ Len(messages) < batch_size) =>
        elapsed >= timeout

\* C6 witness: an empty batch returned after a wait with a positive timeout
C6_Witness ==
    /\ Returned /\ srcKind = "file_watcher" /\ batch_size > 0
    /\ messages = <<>> /\ timeout > 0 /\ slept

\* C7: when initialize_source or switch_source returns False the manager holds
\* no source. The code keeps the closed previous adapter, or the new adapter
\* that did not connect.
C7_FailureLeavesNoSource ==
    (Initialized /\ last.ret = "false") => current_source = 0

\* switch_source to a file watcher, called while a Kafka adapter is held
SwitchedFromKafka ==
    /\ Initialized /\ last.op = "switch_source"
    /\ Lower(last.arg) = "file_watcher" /\ last.prevKind = "kafka"

\* what C8 promises after the switch
SwitchDone ==
    /\ last.closed = 1
    /\ current_type = "file_watcher" /\ srcKind = "file_watcher"
    /\ current_source # last.prev

NoSourceCall(op) == pc = "done" /\ last.op = op /\ last.prev = 0

\* C9 as stated: with no source, consume_batch, close and get_status each
\* fail with a 'no active source' error.
C9_AllFailWithoutSource ==
    \A op \in {"consume_batch", "close", "get_status"} :
        NoSourceCall(op) => last.ret = "raised"

\* C9: with no source, consume_batch raises, get_status returns the status
\* 'no_source_initialized' and close returns having done nothing; with a
\* source, close closes the adapter held, get_status reports its kind and
\* connected flag, and consume_batch runs the adapter's consume_batch.
C9_OnlyConsumeFailsWithoutSource ==
    /\ NoSourceCall("consume_batch") => last.ret = "raised"
    /\ NoSourceCall("get_status") => last.ret = "no_source_initialized"
    /\ NoSourceCall("close") =>
          (last.ret = "returned" /\ last.closed = 0 /\ current_source = 0)
    /\ (pc = "done" /\ last.op = "close" /\ last.prev # 0) =>
          (last.closed = 1 /\ current_source = 0 /\ current_type = "none")
    /\ (pc = "done" /\ last.op = "get_status" /\ last.prev # 0) =>
          (last.ret = "returned" /\ last.arg = current_type
             /\ last.connected = (IF StatusConnected THEN "true" ELSE "false"))
    /\ (last.op = "consume_batch" /\ last.prev # 0) =>
          /\ last.prev = current_source
          /\ srcKind = "kafka" => pc \in {"k_start", "k_iter", "done"}
          /\ srcKind = "file_watcher" =>
                pc \in {"c_begin", "c_sort", "c_file", "c_start", "c_ret",
                        "g_loop", "g_read", "g_yield", "g_arch", "cb_while", "done"}

\* C9 witness: get_status answered without a source
C9_Witness == NoSourceCall("get_status") /\ last.ret = "no_source_initialized"

\* C10: initialize_source (and switch_source through it) ends by returning
\* True or False, never by raising, and returns True only if the adapter was
\* constructed and, with auto_connect, its connect() returned true.
C10_TrueOnlyIfBuiltAndConnected ==
    Initialized =>
        /\ last.ret \in {"true", "false"}
        /\ last.ret = "true" =>
              (last.built /\ (last.auto => last.connected = "true"))
        /\ (~last.built \/ (last.auto /\ last.connected = "false")) =>
              last.ret = "false"

\* C10 witness: a connection failure was reported as False
C10_Witness ==
    /\ Initialized /\ last.op = "initialize_source" /\ last.built /\ last.auto
    /\ last.connected = "false" /\ last.ret = "false"

\* C11: once consume_batch calls on the file watcher have emptied the queue,
\* every valid file that was queued is in the archive and the input directory
\* is empty, whatever batch sizes the calls used; here: when a call returns
\* with the queue empty, no file whose records were delivered is still in the
\* input directory. The code leaves there the files of every batch that
\* reached its size.
C11_DrainedInputIsEmpty ==
    (Returned /\ srcKind = "file_watcher" /\ file_queue = <<>>) =>
        readBy \cap Range(inputDir) = {}

\* position of the first occurrence of f in q (0: not in q)
Pos(q, f) == IF f \in Range(q)
             THEN CHOOSE i \in 1..Len(q) : q[i] = f /\ \A j \in 1..(i - 1) : q[j] # f
             ELSE 0

\* the records of msgs are whole files one after the other, each file's
\* records in list order from its first one
InListOrder(msgs) ==
    \A i \in 1..Len(msgs) :
        IF i > 1 /\ msgs[i][1] = msgs[i - 1][1] /\ msgs[i][2] # 1
        THEN msgs[i][2] = msgs[i - 1][2] + 1
        ELSE /\ msgs[i][2] = 1
             /\ i > 1 => msgs[i - 1][2] = NumRecords(kind[msgs[i - 1][1]])

\* the files of msgs that were queued in q come in q's order, and before the
\* files that were queued later
InQueueOrder(msgs, q) ==
    \A i, j \in 1..Len(msgs) :
        (i < j /\ msgs[i][1] # msgs[j][1] /\ msgs[j][1] \in Range(q)) =>
            /\ msgs[i][1] \in Range(q)
            /\ Pos(q, msgs[i][1]) < Pos(q, msgs[j][1])

NewIn(q, q0) == SelectSeq(q, LAMBDA f : f \notin Range(q0))

\* the paths of q that are in d, in q's order
Among(q, d) == SelectSeq(q, LAMBDA f : f \in Range(d))

\* no file the scan listed has been removed by somebody else
NoneRemoved(d) == Range(d) \subseteq Range(inputDir) \cup archiveDir \cup errorDir

\* C13: with process_existing, connect() queues the files that are in the
\* input directory in ascending modification-time order, all of them; a
\* consume_batch that connects the watcher itself (the first call on an
\* adapter that was not connected) delivers their records in that order, and
\* delivers every parsable one of them unless the batch filled up, provided
\* nobody removed a listed file meanwhile.
C13_BacklogByMtime ==
    /\ (pc = "c_ret" /\ cres /\ last.dir # <<>> /\ NoneRemoved(last.dir)) =>
          Among(NewIn(file_queue, last.queue), last.dir) = NewIn(last.dir, last.queue)
    /\ (srcKind = "file_watcher" /\ last.op = "consume_batch" /\ last.dir # <<>>) =>
          /\ \A i, j \in 1..Len(messages) :
                (i < j /\ {messages[i][1], messages[j][1]}
                             \subseteq Range(NewIn(last.dir, last.queue))) =>
                    Pos(last.dir, messages[i][1]) <= Pos(last.dir, messages[j][1])
          /\ (Returned /\ Len(messages) < batch_size /\ NoneRemoved(last.dir)) =>
                \A f \in Range(last.dir) : Parses(f) \/ f \in archiveDir
                                             => f \in FilesOf(messages)

\* C13 witness: two files were there before the first consume_batch, which
\* connected, scanned and returned the older one's record before the newer one's
C13_Witness ==
    /\ Returned /\ srcKind = "file_watcher" /\ Len(last.dir) = 2 /\ last.queue = <<>>
    /\ messages = <<Rec(last.dir[1], 1), Rec(last.dir[2], 1)>>

\* an unparsable file that was queued when the call began has been quarantined
\* with its report, unless somebody else removed it
Quarantined(f) ==
    (f \in Range(inputDir) \cup errorDir) => (f \in errorDir /\ f \in reportDir)

\* C14: on the file watcher an unparsable file never aborts consume_batch: the
\* call raises only when the watcher could not connect; no record of an
\* unparsable file is in the batch; and when the call returns a batch that did
\* not fill up, every parsable file that was queued when it began has its
\* records in the batch and every unparsable one is in the error directory
\* with its report (the move and the report not having failed).
C14_BadFileNeverAborts ==
    (srcKind = "file_watcher" /\ last.op = "consume_batch") =>
        /\ (pc = "done" /\ last.ret = "raised") => (~fwConn /\ messages = <<>>)
        /\ \A i \in 1..Len(messages) : kind[messages[i][1]] \in {"obj", "list"}
        /\ (Returned /\ Len(messages) < batch_size) =>
              \A f \in Range(last.queue) :
                  /\ (Parses(f) \/ f \in archiveDir) => f \in FilesOf(messages)
                  /\ (kind[f] = "bad" /\ ~last.ioFailed) => Quarantined(f)

\* C14 witness: the queue held an unparsable file, then a valid one; the call
\* quarantined the first and returned the record of the second
C14_Witness ==
    /\ Returned /\ srcKind = "file_watcher" /\ Len(last.queue) = 2
    /\ kind[last.queue[1]] = "bad" /\ last.queue[1] \in errorDir \cap reportDir
    /\ messages = <<Rec(last.queue[2], 1)>>

\* C15: on the broker adapter a message whose payload does not decode does not
\* fail consume_batch: with the consumer connected the call returns its batch
\* and does not raise. The code raises: the deserializer runs inside the
\* consumer's iterator, outside the try that skips a message.
C15_UndecodableDoesNotRaise ==
    (pc = "done" /\ last.op = "consume_batch" /\ srcKind = "kafka"
                 /\ kConsumer = "open") =>
        last.ret # "raised"

\* C16: close() called twice in succession on an adapter never raises, and
\* afterwards the adapter's status reports is_connected == false. The code
\* leaves the flag set when stopping the observer or closing the consumer
\* throws in both calls.
C16_ClosedTwiceNotConnected ==
    (pc = "done" /\ last.op = "adapter_close" /\ last.closed = 2) =>
        (last.ret = "returned" /\ ~StatusConnected)

\* C17: DataSourceManager.close never raises, and after it returns the manager
\* holds no source and the resources of the adapter it held are released: no
\* observer thread alive, no consumer open. The code drops an adapter whose
\* observer or consumer is still running when stopping it threw.
C17_CloseReleasesAdapter ==
    (pc = "done" /\ last.op = "close" /\ last.prev # 0) =>
        /\ last.ret = "returned" /\ current_source = 0
        /\ observer # "alive" /\ kConsumer # "open"

\* connect() on the adapter held has ended
Connected == pc = "done" /\ last.op = "connect"

\* C18: connect() on either adapter ends by returning true or false, never by
\* raising; when the connection could not be made (the broker unreachable, the
\* observer not starting) it returns false and the adapter is not connected:
\* neither its own flag nor the one its status reports is set. The same holds
\* for the connect() that initialize_source makes with auto_connect.
C18_FailedConnectReturnsFalse ==
    /\ Connected => last.ret \in {"true", "false"}
    /\ (Connected /\ last.connected = "false") =>
          (last.ret = "false" /\ ~wConn /\ ~StatusConnected)
    /\ (Connected /\ last.ret = "false") => last.connected = "false"
    /\ (Initialized /\ last.connected = "false") =>
          (last.ret = "false" /\ ~wConn /\ ~StatusConnected)

\* C18 witness: connect() on a file watcher whose observer did not start
\* returned false
C18_Witness ==
    /\ Connected /\ srcKind = "file_watcher" /\ observer = "unstarted"
    /\ last.ret = "false" /\ ~fwConn

\* the public calls that connect and those that close
ConnectOps == {"connect", "initialize_source", "switch_source"}
CloseOps   == {"adapter_close", "close", "initialize_source", "switch_source"}

\* One step of the adapter held, as far as its connected flags go (the
\* wrapper's is_connected and the one get_status reports). The wrapper's flag
\* rises only when a connect() of the calls in ConnectOps returned true; the
\* reported flag of a file watcher rises only when the watcher's connect, made
\* in one of the calls riseOps, has started the observer and returns true;
\* either flag falls only in a call that closes the adapter or in a connect()
\* that failed; a newly constructed adapter has a flag set only if its
\* auto-connect succeeded.
FlagStep(riseOps) ==
    LET same   == nAdapters' = nAdapters
        opened == last'.op \in ConnectOps /\ last'.connected = "true"
        closed == \/ last'.op \in CloseOps /\ last'.closed >= 1
                  \/ last'.op = "connect" /\ last'.connected = "false"
    IN /\ (same /\ ~wConn /\ wConn') => opened
       /\ (same /\ ~StatusConnected /\ StatusConnected') =>
             IF srcKind = "file_watcher"
             THEN pc = "c_start" /\ cres' /\ last.op \in riseOps
             ELSE opened
       /\ (same /\ wConn /\ ~wConn') => closed
       /\ (same /\ StatusConnected /\ ~StatusConnected') => closed
       /\ (~same /\ (wConn' \/ StatusConnected')) => opened

\* C19 as stated: the connected flag rises only in a connect call that
\* succeeded and falls only through close or a failed reconnect; consume_batch
\* and get_status never change it.
C19_OnlyConnectAndCloseChangeFlag == [][FlagStep(ConnectOps)]_vars

\* C19: the connected flag rises only when a connect succeeded - the adapter's
\* connect(), or the connect the file watcher's consume_batch makes itself when
\* the watcher is not connected, which sets the flag get_status reports but not
\* the wrapper's - and falls only through close or a failed reconnect;
\* get_status and the broker adapter's consume_batch never change it.
C19_FlagChangesOnlyByConnectOrClose ==
    [][FlagStep(ConnectOps \cup {"consume_batch"})]_vars

\* C19 witness: a consume_batch on a file watcher that was not connected has
\* just connected it: get_status would report connected, the wrapper's flag is
\* not set
C19_Witness ==
    /\ last.op = "consume_batch" /\ srcKind = "file_watcher"
    /\ pc = "c_ret" /\ cres /\ fwConn /\ ~wConn

\* C20: however the handler's add_file_to_queue interleaves with the caller's
\* pops, file_queue never holds the same path twice. The code can queue a path
\* a second time: a pop(0) during the handler's "not in" test shifts the path
\* under the position the test has reached.
C20_NoPathQueuedTwice ==
    \A i, j \in 1..Len(file_queue) : i # j => file_queue[i] # file_queue[j]

\* a call of consume_batch is running in the adapter
Consuming == last.op = "consume_batch" /\ last.ret = "pending"

\* C21: every consume_batch call eventually returns or raises, whatever
\* arrives while it runs. On the broker adapter the code does not return while
\* invalid messages keep arriving: the iterator's loop ends only at a valid
\* message past the limit or after consumer_timeout_ms without a message, and
\* never looks at timeout_ms.
C21_ConsumeBatchEnds == Consuming ~> (pc = "done")

\* C22: the timeout caps the blocking of the file watcher's consume_batch:
\* whenever the call is at its while test, and when it returns after having
\* waited, no more than timeout has passed since it began. The code sleeps a
\* whole polling_interval whenever the test found time left, so the wait ends
\* up to polling_interval after the timeout.
C22_WaitEndsByTimeout ==
    (srcKind = "file_watcher" /\ last.op = "consume_batch" /\ pc = "cb_while") =>
        elapsed <= timeout

\* C23: on the broker adapter consume_batch(N, timeout_ms) on a topic with no
\* messages returns its empty batch only after at least timeout_ms. The code
\* returns after consumer_timeout_ms whatever timeout_ms is, so sooner when
\* timeout_ms is the larger.
C23_EmptyTopicWaitsTimeout ==
    (Returned /\ srcKind = "kafka" /\ kConsumer = "open" /\ batch_size > 0
              /\ topic = <<>> /\ messages = <<>>) =>
        elapsed >= timeout

\* the first backlog scan of a file watcher started after a crash has just ended
RestartScanned ==
    /\ current_source > 1 /\ srcKind = "file_watcher" /\ processExisting
    /\ pc = "c_start" /\ observer = "none"

\* C24 as stated: a file that was enqueued or dequeued and not yet archived or
\* quarantined when the process crashed is in the input directory, and the
\* backlog scan of a restart with process_existing queues it again.
C24_RestartQueuesEveryHeldFile ==
    /\ \A f \in InHand : Exists(f)
    /\ RestartScanned => atCrash.held \subseteq Range(file_queue)

\* C24: a file that is enqueued or dequeued and not yet archived or quarantined
\* is in the input directory at every point, so also after a crash; the backlog
\* scan of a restart with process_existing queues it again if it passes the
\* readiness check (it is not of 0 bytes), and the restarted watcher then
\* delivers the records of a parsable one: such a file is queued, being read,
\* or has been yielded from.
C24_RestartQueuesReadyHeldFiles ==
    /\ \A f \in InHand : Exists(f)
    /\ RestartScanned =>
          \A f \in atCrash.held : IsFileReady(f) => f \in Range(file_queue)
    /\ (current_source > 1 /\ srcKind = "file_watcher" /\ processExisting
                           /\ observer # "none") =>
          \A f \in atCrash.held :
              kind[f] \in {"obj", "list"} => f \in InHand \cup readBy

\* C24 witness: a file the crashed process had yielded a record from, and had
\* not archived, is delivered again by the restarted one
C24_Witness ==
    /\ Returned /\ current_source > 1
    /\ \E f \in atCrash.held \cap atCrash.read :
          \E i \in 1..Len(messages) : messages[i] = Rec(f, 1)

\* s is an initial part of t
IsPrefix(s, t) == Len(s) <= Len(t) /\ SubSeq(t, 1, Len(s)) = s

\* One step while the file watcher's consume_batch runs: the batch only grows
\* at its end; and when the caller's thread, at the while test, finds the
\* batch short, time left and a path in the queue, it runs consume_messages for
\* the records that are missing.
WaitStep ==
    (srcKind = "file_watcher" /\ last.op = "consume_batch"
                              /\ last'.op = "consume_batch") =>
        /\ IsPrefix(messages, messages')
        /\ (/\ pc = "cb_while"
            /\ (pc' # pc \/ elapsed' # elapsed \/ slept' # slept)
            /\ Len(messages) < batch_size /\ elapsed' < timeout
            /\ file_queue # <<>>) =>
              /\ pc' = GenEntry
              /\ max_messages' = batch_size - Len(messages)
              /\ file_queue' = file_queue

\* C25: while the file watcher's consume_batch holds fewer than N records and
\* the timeout has not elapsed, a file the watch callback queued during the
\* wait is picked up at the next test of the wait loop, and its records are
\* appended to the batch after the records already there.
C25_WaitPicksUpQueuedFile == [][WaitStep]_vars

\* C25 witness: a call that held one record of a file queued at its start
\* slept, then returned that record followed by the record of a file that was
\* queued while it ran
C25_Witness ==
    /\ Returned /\ srcKind = "file_watcher" /\ slept /\ batch_size = 2
    /\ Len(messages) = 2
    /\ messages[1][1] \in Range(last.queue)
    /\ messages[2][1] \notin Range(last.queue) \cup Range(last.dir)

\* C26: initialize_source closes the adapter it holds, once, and only that one
\* (the new adapter is constructed afterwards and is not closed); a failure of
\* that close is not propagated and changes nothing of what follows: the call
\* returns True or False, a broker adapter is always constructed, the adapter
\* constructed becomes the current one, and with auto_connect it is connected
\* as its connect() turned out.
C26_CloseFailureDoesNotStopInitialize ==
    Initialized =>
        /\ last.closed = (IF last.prev # 0 THEN 1 ELSE 0)
        /\ last.ret \in {"true", "false"}
        /\ Lower(last.arg) = "kafka" => last.built
        /\ last.built =>
              /\ current_source = nAdapters /\ current_source # last.prev
              /\ srcKind = Lower(last.arg) /\ current_type = Lower(last.arg)
              /\ last.ret = InitializeResult(last.auto, last.connected = "true")
              /\ wConn = (last.auto /\ last.connected = "true")

\* C26 witness: closing the adapter held threw, and the new adapter was
\* constructed and connected
C26_Witness ==
    /\ Initialized /\ last.closeFailed /\ last.prev # 0
    /\ last.built /\ last.auto /\ last.connected = "true" /\ last.ret = "true"
    /\ wConn

\* One step of a file-watcher adapter, as far as connect and close go: a
\* connect() that finds the watcher connected goes straight to returning true,
\* leaving the queue, the scan and the observer alone; a close() of an adapter
\* whose observer never ran returns, changes neither queue nor observer and
\* leaves the adapter not connected.
ConnectCloseStep ==
    srcKind = "file_watcher" =>
        /\ (pc = "c_begin" /\ pc' # pc /\ fwConn) =>
              /\ pc' = "c_ret" /\ cres'
              /\ UNCHANGED <<file_queue, observer, scanList, fwConn>>
        /\ (/\ observer \in {"none", "unstarted"}
            /\ last' # last /\ last'.op \in {"adapter_close", "close"}
            /\ last'.prev # 0) =>
              /\ last'.ret = "returned" /\ ~last'.closeFailed
              /\ UNCHANGED <<file_queue, observer, fsVars>>
              /\ ~fwConn' /\ ~wConn'

\* C27: connect() on a file watcher that is already connected returns true
\* without scanning the backlog again and without starting another observer;
\* whatever connect and close calls are made, an observer is started only when
\* none is running for the adapter, and while one runs the watcher counts as
\* connected; close() on an adapter whose observer was never started does
\* nothing but clear the flags.
C27_ConnectIdempotentOneObserver ==
    /\ [][ConnectCloseStep]_vars
    /\ [](srcKind = "file_watcher" =>
             /\ pc = "c_start" => observer # "alive"
             /\ observer = "alive" => fwConn
             /\ (Connected /\ last.connected = "already") => last.ret = "true")

\* C27 witness: connect() on a connected watcher, with a file in the directory
\* that is not queued, is about to return true: nothing was scanned
C27_Witness ==
    /\ srcKind = "file_watcher" /\ pc = "c_ret" /\ cont = "adapter"
    /\ last.connected = "already" /\ cres /\ observer = "alive"
    /\ inputDir # <<>> /\ file_queue = <<>> /\ events = <<>> /\ hpc = "idle"

\* _archive_file has just been applied to the first of processed_files
ArchiveApplied ==
    pc = "g_arch" /\ processed_files # <<>> /\ processed_files' = Tail(processed_files)

\* C28 as stated: after _archive_file returns, the file is no longer in the
\* input directory, whether the move succeeded or failed.
C28_ArchiveAlwaysRemoves ==
    [][ArchiveApplied => Head(processed_files) \notin Range(inputDir')]_vars

\* C28: when the move to the archive fails, _archive_file tries to delete the
\* original; after it returns the file is no longer in the input directory
\* unless that unlink failed as well, which is passed over silently: then the
\* file stays in the input directory. A file that was moved is in the archive
\* and not in the input directory.
C28_ArchiveRemovesUnlessUnlinkFails ==
    [][ArchiveApplied =>
          LET f == Head(processed_files)
          IN /\ f \in Range(inputDir') => last'.unlinkFailed
             /\ f \in archiveDir' => f \notin Range(inputDir')]_vars

\* C28 witness: a file whose record was delivered is neither in the input
\* directory nor in the archive: the move failed and the original was deleted
C28_Witness ==
    /\ Returned /\ srcKind = "file_watcher" /\ ~last.unlinkFailed
    /\ \E f \in FilesOf(messages) : ~Exists(f) /\ f \notin archiveDir

\* C29: in every reachable state each file in the error directory has its
\* .error.txt report beside it. The code moves the file first and writes the
\* report afterwards, inside one try: when the report cannot be written the
\* file is in the error directory without a report.
C29_ErrorFileHasReport == \A f \in errorDir : f \in reportDir

\* One step of the generator on a path that is gone: at the pop (the exists
\* test fails) and at the read (open throws, and the move of
\* _move_file_to_error throws as well) the generator goes back to the loop
\* head; the batch, the directories and the list of processed files stay as
\* they are and the call goes on.
VanishedStep ==
    /\ (/\ pc = "g_loop" /\ LoopCond /\ ~Exists(Head(file_queue))
        /\ Len(file_queue') < Len(file_queue)) =>
          /\ pc' = "g_loop" /\ file_queue' = Tail(file_queue)
          /\ last'.ret = "pending"
          /\ UNCHANGED <<messages, message_count, processed_files, fsVars>>
    /\ (pc = "g_read" /\ ~Exists(cur) /\ pc' # pc) =>
          /\ pc' = "g_loop" /\ last'.ret = "pending"
          /\ UNCHANGED <<messages, message_count, processed_files, fsVars,
                         file_queue>>

\* C30: a queued file that is gone from the input directory when it is
\* dequeued, or that goes between the existence test and the read, is dropped:
\* no record of it is emitted, nothing is added to the archive or the error
\* directory, no report is written, nothing is raised, and consume_batch goes
\* on with the next queued file.
C30_VanishedFileDropped == [][VanishedStep]_vars

\* C30 witness: of two parsable files queued when the call began the first is
\* gone and left no trace, and the call returned the record of the second in a
\* batch that had room for more
C30_Witness ==
    /\ Returned /\ srcKind = "file_watcher" /\ batch_size = 2
    /\ Len(last.queue) = 2 /\ last.queue[1] # last.queue[2]
    /\ kind[last.queue[1]] \in {"obj", "list"}
    /\ ~Exists(last.queue[1])
    /\ last.queue[1] \notin archiveDir \cup errorDir \cup reportDir \cup readBy
    /\ messages = <<Rec(last.queue[2], 1)>>

\* One step of the backlog scan's loop: a path is added to the queue only if
\* the file is there and its two size samples are equal and > 0; a listed file
\* that is ready, and not queued yet, is added, also when an earlier scan of
\* the adapter had skipped it.
ScanStep ==
    (pc = "c_file" /\ scanList # <<>> /\ scanList' = Tail(scanList)) =>
        LET f == Head(scanList)
            ready == Exists(f) /\ kind[f] \notin {"empty", "writing"}
        IN /\ file_queue' # file_queue => (ready /\ file_queue' = Append(file_queue, f))
           /\ (ready /\ f \notin Range(file_queue)) => file_queue' = Append(file_queue, f)
           /\ (Exists(f) /\ ~ready) => f \in skipped'

\* C31: the backlog scan queues a file only if it still exists, its size did
\* not change over the settle interval and is > 0; a file a scan skipped as not
\* ready is tested again by a later scan of the same adapter that lists it, and
\* queued once it is ready.
C31_ScanQueuesOnlyReadyFiles ==
    /\ [][ScanStep]_vars
    /\ [](pc \in {"c_begin", "c_sort", "c_file", "c_start"} /\ ~fwConn
             => observer # "alive")

\* C31 witness: a file that an earlier scan skipped has been queued by the scan
\* of a later connect()
C31_Witness ==
    /\ last.op = "connect" /\ pc = "c_file"
    /\ \E f \in skipped : f \in Range(file_queue) /\ f \notin Range(last.queue)

\* create_data_source has ended
Created == pc = "done" /\ last.op = "create_data_source"

\* the kind a source_type names: the enum's member, or the member whose value
\* is the string in lower case
KindNamed(arg) ==
    CASE arg \in {"kafka", "Kafka", "DataSourceType.KAFKA"} -> "kafka"
      [] arg \in {"file_watcher", "FILE_WATCHER",
                  "DataSourceType.FILE_WATCHER"}            -> "file_watcher"
      [] OTHER                                              -> "none"

\* the adapter of the kind was constructed, with the caller's configuration or,
\* none given, with the kind's defaults
BuiltAsNamed ==
    /\ last.ret = "returned" /\ last.built /\ last.made = KindNamed(last.arg)
    /\ last.config = IF last.given # "None" THEN last.given
                     ELSE IF last.made = "kafka" THEN "KAFKA_CONFIG"
                     ELSE "file_watcher_defaults"

\* C32 as stated: create_data_source fails for an unknown kind and constructs
\* no adapter; for a known kind it constructs that kind's adapter.
C32_KnownKindAlwaysConstructs ==
    Created =>
        IF KindNamed(last.arg) = "none"
        THEN last.ret = "raised" /\ ~last.built /\ last.made = "none"
        ELSE BuiltAsNamed

\* C32: create_data_source with an unknown kind raises and constructs no
\* adapter; for a known kind, given as a member of the enum or as a string in
\* any case, it constructs that kind's adapter with the configuration given or,
\* none given, the kind's defaults - unless the adapter's constructor throws
\* (the file watcher's, when it cannot make its directories), which
\* create_data_source raises again.
C32_KnownKindConstructsUnlessCtorFails ==
    Created =>
        IF KindNamed(last.arg) = "none"
        THEN last.ret = "raised" /\ ~last.built /\ last.made = "none"
        ELSE IF last.ctorFailed
        THEN last.ret = "raised" /\ ~last.built /\ KindNamed(last.arg) = "file_watcher"
        ELSE BuiltAsNamed

\* C32 witness: 'FILE_WATCHER' with no configuration gave a file watcher with
\* the defaults
C32_Witness ==
    /\ Created /\ last.arg = "FILE_WATCHER" /\ last.ret = "returned"
    /\ last.given = "None"
    /\ last.made = "file_watcher" /\ last.config = "file_watcher_defaults"

\* the records of list file f that the returned batch stops short of: the
\* batch holds record i and not record i + 1
Unfit(f) ==
    {i + 1 : i \in {j \in 1..(ListLen - 1) :
                       /\ Rec(f, j) \in Range(messages)
                       /\ Rec(f, j + 1) \notin Range(messages)}}

\* a later consume_batch on this adapter will come to the file: it is queued,
\* or an event for it is on its way to the queue
Pending(f) == f \in Range(file_queue) \cup Range(events) \cup {hfile}

\* C33: no record of a parsed file is dropped: when consume_batch returns a
\* batch that holds only the first records of a list file, for want of room,
\* the file (still in the input directory) is pending in the adapter, so that a
\* later consume_batch on the same adapter delivers the records that did not
\* fit. The code abandons the generator at the full batch and the file is
\* neither queued nor archived.
C33_UnfitRecordsStayPending ==
    (Returned /\ srcKind = "file_watcher") =>
        \A f \in Files :
            (Exists(f) /\ kind[f] = "list" /\ Unfit(f) # {}) => Pending(f)

\* a step of the broker adapter's consume_batch that takes the next message
\* from the consumer's iterator: a message that passes validation goes into
\* the batch
TakeStep ==
    (pc = "k_iter" /\ kpos' = kpos + 1 /\ topic' = topic /\ topic[kpos] = "valid") =>
        messages' = Append(messages, Rec(0, kpos))

\* C34: the broker adapter's consume_batch(N) returns every valid message it
\* takes from the consumer's iterator, and with N valid messages collected it
\* is not at the iterator any more, fetching or waiting for a further one. The
\* code tests its limit only on the next message, which it has then taken and
\* throws away.
C34_TakenMessagesAreReturned ==
    /\ [][TakeStep]_vars
    /\ []((pc = "k_iter" /\ batch_size > 0) => Len(messages) < batch_size)

\* C35: under repeated runs of the DAG's consume task on the file watcher
\* (each a new manager, initialize_source with process_existing, one
\* consume_batch(N), close), every valid file that stays in the input
\* directory is in the end archived. The code archives nothing in a run whose
\* batch fills, and the next run starts from the same oldest files.
C35_EveryValidFileArchived ==
    \A f \in Files : (Exists(f) /\ Parses(f)) ~> (f \in archiveDir)

\* the file watcher is connected and at rest: connect() has returned, the
\* observer has no event left and its handler is not running
AtRest ==
    /\ srcKind = "file_watcher" /\ fwConn /\ observer = "alive" /\ pc = "idle"
    /\ events = <<>> /\ hpc = "idle"

\* C36: with process_existing, once the connected file watcher has come to
\* rest, every ready file of the input directory (that no earlier scan passed
\* over as not ready) is in the pending-file queue, also a file created after
\* the backlog scan listed the directory and before the observer was started.
\* The code has neither a listing nor an event for such a file.
C36_ReadyFilesGetQueued ==
    (AtRest /\ processExisting) =>
        \A f \in Files \ skipped :
            (Exists(f) /\ IsFileReady(f)) => f \in Range(file_queue)

\* C37: when the backlog scan has ended, every file it had listed that is
\* still in the input directory and ready (and that the scan did not pass over
\* as not ready) is in the queue, whatever other listed files have disappeared
\* meanwhile. In the code a file that is gone when the list is sorted by
\* st_mtime ends the whole scan.
C37_VanishedFileSkippedAlone ==
    (pc = "c_start" /\ processExisting) =>
        \A f \in Range(last.dir) \ skipped :
            (Exists(f) /\ IsFileReady(f)) => f \in Range(file_queue)

\* C38: between calls, the broker adapter's get_status()['is_connected'] is
\* true exactly when the adapter holds an open consumer, also one that
\* consume_batch opened on an adapter initialized without auto_connect. The
\* code sets the flag in the wrapper's connect() and close() only.
C38_StatusTellsSubscription ==
    (pc = "idle" /\ current_source # 0 /\ srcKind = "kafka") =>
        (StatusConnected <=> kConsumer = "open")

\* C39: in every state of the manager current_type is None exactly when
\* current_source is None, and else it is the kind of the adapter that
\* current_source holds, also after calls that failed.
C39_TypeNamesSourceHeld ==
    /\ current_source = 0 <=> current_type = "none"
    /\ current_source # 0 => current_type = srcKind

\* C39 witness: an initialize_source or switch_source that could not construct
\* its adapter has returned False, and the manager holds the (closed) adapter it
\* held before, of the other kind, under that adapter's type
C39_Witness ==
    /\ Initialized /\ last.ret = "false" /\ ~last.built
    /\ last.prev # 0 /\ current_source = last.prev
    /\ current_type = last.prevKind /\ current_type \in DataSourceType
    /\ Lower(last.arg) # current_type

====
